---- MODULE Spec2Model ----
(***************************************************************************)
(* A model of the BeerSmith .bsmx parser (src/src/beersmith_mcp/parser.py) *)
(* and of the create_recipe tool (src/src/beersmith_mcp/server.py).        *)
(*                                                                         *)
(* Text is modelled at two levels.  A string value (a name, a note) is a   *)
(* sequence of one-character strings, so that lower-casing, substring      *)
(* search, escaping and sanitising are computed character by character.    *)
(* A file is a sequence of tokens: an opening tag, a closing tag, or a     *)
(* leaf element <TAG>text</TAG>.  Consecutive tokens are separated by a    *)
(* line break, as in the files BeerSmith writes and in the fragments the   *)
(* parser generates.                                                       *)
(***************************************************************************)
EXTENDS Integers, Sequences, FiniteSets, TLC

VARIABLES fs, cache, backups, exports, dirs, now, ret, candidates

vars == <<fs, cache, backups, exports, dirs, now, ret, candidates>>

(***************************************************************************)
(* Bounds of the model.                                                    *)
(***************************************************************************)
MaxTime == 1
MaxRecipes == 2
MaxText == 3
MaxChildren == 2

----------------------------------------------------------------------------
(***************************************************************************)
(* Characters and strings.                                                 *)
(***************************************************************************)
None == [none |-> TRUE]

Upper == {"A", "B", "C", "E", "F", "I", "M", "N", "P", "T", "Y"}

\* str.lower() on one character
LowerCh(c) ==
    CASE c = "A" -> "a"
      [] c = "B" -> "b"
      [] c = "C" -> "c"
      [] c = "E" -> "e"
      [] c = "F" -> "f"
      [] c = "I" -> "i"
      [] c = "M" -> "m"
      [] c = "N" -> "n"
      [] c = "P" -> "p"
      [] c = "T" -> "t"
      [] c = "Y" -> "y"
      [] OTHER -> c

\* str.lower()
Lower(s) == [i \in 1..Len(s) |-> LowerCh(s[i])]

\* Python's `needle in hay` on strings
Contains(hay, needle) ==
    \E i \in 0..(Len(hay) - Len(needle)) :
        \A j \in 1..Len(needle) : hay[i + j] = needle[j]

\* code point order of the characters the model uses (sorted() compares
\* strings by code point)
Code(c) ==
    CASE c = " " -> 32
      [] c = "&" -> 38
      [] c = "0" -> 48
      [] c = "1" -> 49
      [] c = "A" -> 65
      [] c = "B" -> 66
      [] c = "C" -> 67
      [] c = "M" -> 77
      [] c = "P" -> 80
      [] c = "_" -> 95
      [] c = "a" -> 97
      [] c = "b" -> 98
      [] c = "c" -> 99
      [] c = "m" -> 109
      [] c = "p" -> 112
      [] OTHER -> 200

\* Python's s < t on strings
RECURSIVE StrLess(_, _)
StrLess(s, t) ==
    IF t = <<>> THEN FALSE
    ELSE IF s = <<>> THEN TRUE
    ELSE IF Code(Head(s)) # Code(Head(t)) THEN Code(Head(s)) < Code(Head(t))
    ELSE StrLess(Tail(s), Tail(t))

----------------------------------------------------------------------------
(***************************************************************************)
(* Tokens of a .bsmx file.                                                 *)
(***************************************************************************)
Open(t) == [k |-> "open", tag |-> t, val |-> <<>>]
Close(t) == [k |-> "close", tag |-> t, val |-> <<>>]
Fld(t, v) == [k |-> "field", tag |-> t, val |-> v]

\* indices of a sequence that satisfy a test, and the least of them
Min(S) == CHOOSE x \in S : \A y \in S : x <= y
Max(S) == CHOOSE x \in S : \A y \in S : x >= y

\* s[a..b], empty when a > b
Slice(s, a, b) == IF a > b THEN <<>> ELSE SubSeq(s, a, b)

----------------------------------------------------------------------------
(***************************************************************************)
(* Character entities.                                                     *)
(***************************************************************************)
Amp == <<"&", "a", "m", "p", ";">>

\* does s start with the string p
StartsWith(s, p) == Len(s) >= Len(p) /\ SubSeq(s, 1, Len(p)) = p

\* drop the first n characters
Drop(s, n) == Slice(s, n + 1, Len(s))

\* html.escape followed by numeric references for non-ASCII characters;
\* of the characters the model uses only "&" is rewritten
RECURSIVE _xml_escape(_)
_xml_escape(text) ==
    IF text = <<>> THEN <<>>
    ELSE IF Len(text) = 1 THEN (IF Head(text) = "&" THEN Amp ELSE text)
    ELSE _xml_escape(SubSeq(text, 1, Len(text) \div 2))
         \o _xml_escape(SubSeq(text, Len(text) \div 2 + 1, Len(text)))

\* html.unescape, and the parser's own decoding of the predefined
\* entities: one pass from left to right, the replacement is not rescanned
RECURSIVE Unescape(_)
Unescape(text) ==
    IF text = <<>> THEN <<>>
    ELSE IF StartsWith(text, Amp) THEN <<"&">> \o Unescape(Drop(text, Len(Amp)))
    ELSE <<Head(text)>> \o Unescape(Tail(text))

Nbsp == <<"&", "n", "b", "s", "p", ";">>

\* the HTML_ENTITIES table applied by literal replacement; of its entries
\* the model's texts can hold &nbsp;
RECURSIVE ReplaceHtmlEntities(_)
ReplaceHtmlEntities(text) ==
    IF text = <<>> THEN <<>>
    ELSE IF StartsWith(text, Nbsp)
         THEN <<" ">> \o ReplaceHtmlEntities(Drop(text, Len(Nbsp)))
    ELSE <<Head(text)>> \o ReplaceHtmlEntities(Tail(text))

----------------------------------------------------------------------------
(***************************************************************************)
(* The error-recovering parser (etree.XMLParser(recover=True)).  The tree  *)
(* it builds is kept as the token sequence of the root element: every      *)
(* element left open at the end of the input is closed there, an end tag   *)
(* closes the element that is open whatever name it carries, and whatever  *)
(* follows the end of the root element is dropped.                         *)
(***************************************************************************)
\* the number of elements open after token i
Depths(toks) ==
    [i \in 0..Len(toks) |->
        Cardinality({j \in 1..i : toks[j].k = "open"})
        - Cardinality({j \in 1..i : toks[j].k = "close"})]

\* the opening token of the element that is open at level l after token j
OpenAt(toks, depth, j, l) ==
    Max({i \in 1..j : toks[i].k = "open" /\ depth[i] = l})

\* the tree built from toks when depth = Depths(toks)
Closed(toks, depth) ==
    LET ends == {j \in 1..Len(toks) : depth[j] = 0}
        last == IF ends = {} THEN Len(toks) ELSE Min(ends)
    IN  [j \in 1..last |->
            IF toks[j].k = "close"
            THEN Close(toks[OpenAt(toks, depth, j, depth[j] + 1)].tag)
            ELSE toks[j]]
        \o [m \in 1..depth[last] |->
                Close(toks[OpenAt(toks, depth, last, depth[last] + 1 - m)].tag)]

Recover(toks) ==
    IF toks[1].k = "field" THEN <<toks[1]>> ELSE Closed(toks, Depths(toks))

\* etree.fromstring raises XMLSyntaxError when the text holds no element
Parseable(toks) == toks # <<>> /\ toks[1].k # "close"

\* the parser decodes the predefined entities of the text it keeps
Decoded(out) == [i \in 1..Len(out) |-> [out[i] EXCEPT !.val = Unescape(out[i].val)]]

RecoverParse(toks) == Decoded(Recover(toks))

(***************************************************************************)
(* Navigation in a parsed document d.  An element is named by the index of *)
(* its opening (or leaf) token.                                            *)
(***************************************************************************)
\* index of the last token of the element at i, depth = Depths(d)
EndAt(d, depth, i) ==
    IF d[i].k = "field" THEN i
    ELSE Min({j \in (i + 1)..Len(d) : depth[j] = depth[i] - 1})

ElemEnd(d, i) == EndAt(d, Depths(d), i)

\* the indices in lo..hi that satisfy the test, in increasing order
Indices(lo, hi, Test(_)) ==
    SelectSeq([j \in 1..(IF hi < lo THEN 0 ELSE hi - lo + 1) |-> lo + j - 1], Test)

ChildrenAt(d, depth, i) ==
    LET IsChild(c) == d[c].k # "close" /\ depth[c - 1] = depth[i]
    IN  IF d[i].k = "field" THEN <<>>
        ELSE Indices(i + 1, EndAt(d, depth, i) - 1, IsChild)

\* list(element): the direct children, in document order
Children(d, i) == ChildrenAt(d, Depths(d), i)

\* element.findall(tag)
FindAll(d, i, tag) ==
    LET Is(c) == d[c].tag = tag IN SelectSeq(Children(d, i), Is)

\* element.find(tag): the first child with that tag, 0 for None
Find(d, i, tag) ==
    LET f == FindAll(d, i, tag) IN IF f = <<>> THEN 0 ELSE f[1]

\* child.text or ""
Text(d, i) == d[i].val

\* root.iter(tag): the root and all its descendants with that tag
Iter(d, tag) ==
    LET Is(i) == d[i].k # "close" /\ d[i].tag = tag IN Indices(1, Len(d), Is)

----------------------------------------------------------------------------
(***************************************************************************)
(* _convert_value.  A value is a record [t, n, s]: t is the Python type,   *)
(* n the number for an int, s the text for a str or a float.               *)
(***************************************************************************)
Digits == {"0", "1"}

DigitVal(c) == IF c = "1" THEN 1 ELSE 0

RECURSIVE LStrip(_)
LStrip(s) == IF s # <<>> /\ Head(s) = " " THEN LStrip(Tail(s)) ELSE s

RECURSIVE RStrip(_)
RStrip(s) ==
    IF s # <<>> /\ s[Len(s)] = " " THEN RStrip(SubSeq(s, 1, Len(s) - 1)) ELSE s

Strip(s) == RStrip(LStrip(s))

Unsigned(s) == IF s # <<>> /\ Head(s) \in {"+", "-"} THEN Tail(s) ELSE s

AllDigits(s) == s # <<>> /\ \A i \in 1..Len(s) : s[i] \in Digits

\* digits, with single underscores between them
DigitPart(s) ==
    /\ s # <<>>
    /\ \A i \in 1..Len(s) : s[i] \in Digits \cup {"_"}
    /\ s[1] # "_"
    /\ s[Len(s)] # "_"
    /\ \A i \in 1..(Len(s) - 1) : ~(s[i] = "_" /\ s[i + 1] = "_")

\* int(text) succeeds: blanks around, a sign, digits with underscores
IsInt(text) == DigitPart(Unsigned(Strip(text)))

NotUnderscore(c) == c # "_"

RECURSIVE DigitsVal(_)
DigitsVal(s) ==
    IF s = <<>> THEN 0
    ELSE 10 * DigitsVal(SubSeq(s, 1, Len(s) - 1)) + DigitVal(s[Len(s)])

IntOf(text) ==
    LET t == Strip(text)
    IN  IF t # <<>> /\ Head(t) = "-" THEN 0 - DigitsVal(SelectSeq(Unsigned(t), NotUnderscore))
        ELSE DigitsVal(SelectSeq(Unsigned(t), NotUnderscore))

\* the words float() accepts after the sign, in any case
FloatWords ==
    {<<"i", "n", "f">>, <<"n", "a", "n">>,
     <<"i", "n", "f", "i", "n", "i", "t", "y">>}

\* digits with at most one ".", and a digit on one side of it at least
Mantissa(m) ==
    LET dots == {i \in 1..Len(m) : m[i] = "."}
        dot == Min(dots)
    IN  IF dots = {} THEN DigitPart(m)
        ELSE /\ Cardinality(dots) = 1
             /\ Len(m) > 1
             /\ dot = 1 \/ DigitPart(Slice(m, 1, dot - 1))
             /\ dot = Len(m) \/ DigitPart(Slice(m, dot + 1, Len(m)))

\* a mantissa, then possibly e or E, a sign and digits
Decimal10(u) ==
    LET es == {i \in 1..Len(u) : u[i] = "e"}
        e == Min(es)
    IN  IF es = {} THEN Mantissa(u)
        ELSE /\ Mantissa(Slice(u, 1, e - 1))
             /\ DigitPart(Unsigned(Slice(u, e + 1, Len(u))))

\* float(text) succeeds: blanks around, a sign, then inf, infinity or nan
\* in any case, or a decimal numeral with an optional exponent
IsFloat(text) ==
    LET u == Lower(Unsigned(Strip(text)))
    IN  u \in FloatWords \/ Decimal10(u)

StrV(s) == [t |-> "str", n |-> 0, s |-> s]
IntV(n) == [t |-> "int", n |-> n, s |-> <<>>]
FloatV(s) == [t |-> "float", n |-> 0, s |-> s]
DictV(i) == [t |-> "dict", n |-> i, s |-> <<>>]

\* the conversion with the float tried before the int
_convert_value_float_first(text) ==
    IF text = <<>> THEN StrV(<<>>)
    ELSE IF IsFloat(text) THEN FloatV(Strip(text))
    ELSE IF (\A i \in 1..Len(text) : text[i] # ".") /\ IsInt(text)
         THEN IntV(IntOf(text))
    ELSE StrV(text)

_convert_value(text) ==
    IF text = <<>> THEN StrV(<<>>)
    ELSE IF (\A i \in 1..Len(text) : text[i] # ".") /\ IsInt(text)
         THEN IntV(IntOf(text))
    ELSE IF IsFloat(text) THEN FloatV(Strip(text))
    ELSE StrV(text)

(***************************************************************************)
(* _element_to_dict.  The record is a function from the lower-cased tag    *)
(* to the value of the last child that carries it; a child with children   *)
(* is kept as a reference to that child (DictV).                           *)
(***************************************************************************)
\* str.lower() on the tag names the model uses
TagLower(t) ==
    CASE t = "F_G_NAME" -> "f_g_name"
      [] t = "F_G_NOTES" -> "f_g_notes"
      [] t = "F_G_ORIGIN" -> "f_g_origin"
      [] t = "F_H_NAME" -> "f_h_name"
      [] t = "F_H_ORIGIN" -> "f_h_origin"
      [] t = "F_H_NOTES" -> "f_h_notes"
      [] t = "F_Y_NAME" -> "f_y_name"
      [] t = "F_Y_LAB" -> "f_y_lab"
      [] t = "F_Y_PRODUCT_ID" -> "f_y_product_id"
      [] t = "F_Y_NOTES" -> "f_y_notes"
      [] t = "F_S_NAME" -> "f_s_name"
      [] t = "F_S_CATEGORY" -> "f_s_category"
      [] t = "F_S_NOTES" -> "f_s_notes"
      [] t = "F_E_NAME" -> "f_e_name"
      [] t = "F_M_NAME" -> "f_m_name"
      [] t = "F_M_NOTES" -> "f_m_notes"
      [] t = "F_E_NOTES" -> "f_e_notes"
      [] t = "F_R_NAME" -> "f_r_name"
      [] t = "F_R_NOTES" -> "f_r_notes"
      [] t = "F_R_FOLDER_NAME" -> "f_r_folder_name"
      [] t = "F_W_NAME" -> "f_w_name"
      [] t = "F_W_NOTES" -> "f_w_notes"
      [] t = "F_MH_NAME" -> "f_mh_name"
      [] t = "F_MH_NOTES" -> "f_mh_notes"
      [] t = "F_MS_NAME" -> "f_ms_name"
      [] t = "F_R_STYLE" -> "f_r_style"
      [] t = "F_R_EQUIPMENT" -> "f_r_equipment"
      [] t = "F_R_MASH" -> "f_r_mash"
      [] t = "F_C_RECIPE" -> "f_c_recipe"
      [] t = "MashStep" -> "mashstep"
      [] t = "Mash" -> "mash"
      [] t = "Misc" -> "misc"
      [] t = "Water" -> "water"
      [] t = "Cloud" -> "cloud"
      [] t = "_PERMID_" -> "_permid_"
      [] t = "Name" -> "name"
      [] t = "Data" -> "data"
      [] t = "Table" -> "table"
      [] t = "Grain" -> "grain"
      [] t = "Hops" -> "hops"
      [] t = "Yeast" -> "yeast"
      [] t = "Style" -> "style"
      [] t = "Equipment" -> "equipment"
      [] t = "Recipe" -> "recipe"
      [] t = "Ingredients" -> "ingredients"
      [] t = "_TExpanded" -> "_texpanded"
      [] t = "TExtra" -> "textra"
      [] t = "TxLog" -> "txlog"
      [] OTHER -> t

\* the value kept for child c: the child itself when it has children,
\* else its converted text
\* the value of child c with the text taken as the parser left it
ValueOf_raw(d, c) ==
    IF Children(d, c) # <<>> THEN DictV(c) ELSE _convert_value(Text(d, c))

ValueOf(d, c) ==
    IF Children(d, c) # <<>> THEN DictV(c)
    ELSE _convert_value(Unescape(Text(d, c)))

\* result[tag] = ... for each child in ch, in order: the last one stays
DictOf(d, ch) ==
    [key \in {TagLower(d[ch[n]].tag) : n \in 1..Len(ch)} |->
        ValueOf(d, ch[Max({n \in 1..Len(ch) : TagLower(d[ch[n]].tag) = key})])]

_element_to_dict(d, i) == DictOf(d, Children(d, i))

----------------------------------------------------------------------------
(***************************************************************************)
(* The typed entities.  beersmith_mcp/models.py is not part of the         *)
(* sources at hand; the schema is taken from the specification: a field    *)
(* tag is the entity's prefix code joined with the field name, the name is *)
(* required and is text, the other fields default to the empty string.     *)
(* An entity is a record [name, aux, pid, notes]: aux is the origin of a   *)
(* grain or hop, the lab of a yeast, the category of a style; pid is the   *)
(* product id of a yeast.                                                  *)
(***************************************************************************)
Kinds == {"grain", "hop", "yeast", "style", "equipment", "misc", "water",
          "mash", "mashstep", "recipe"}

\* the file and the item tag the catalog queries read
KindFile(kind) ==
    CASE kind = "grain" -> "Grain.bsmx"
      [] kind = "hop" -> "Hops.bsmx"
      [] kind = "yeast" -> "Yeast.bsmx"
      [] kind = "style" -> "Style.bsmx"
      [] kind = "equipment" -> "Equipment.bsmx"
      [] kind = "misc" -> "Misc.bsmx"
      [] kind = "water" -> "Water.bsmx"
      [] kind = "mash" -> "Mash.bsmx"
      [] kind = "recipe" -> "Recipe.bsmx"

KindTag(kind) ==
    CASE kind = "grain" -> "Grain"
      [] kind = "hop" -> "Hops"
      [] kind = "yeast" -> "Yeast"
      [] kind = "style" -> "Style"
      [] kind = "equipment" -> "Equipment"
      [] kind = "misc" -> "Misc"
      [] kind = "water" -> "Water"
      [] kind = "mash" -> "Mash"
      [] kind = "mashstep" -> "MashStep"
      [] kind = "recipe" -> "Recipe"

\* Field(alias=...) of the models, upper-cased as _update_xml_fields does;
\* "" when the field declares no alias
Alias(kind, field) ==
    CASE kind = "grain" /\ field = "name" -> "F_G_NAME"
      [] kind = "grain" /\ field = "origin" -> "F_G_ORIGIN"
      [] kind = "grain" /\ field = "notes" -> "F_G_NOTES"
      [] kind = "hop" /\ field = "name" -> "F_H_NAME"
      [] kind = "hop" /\ field = "origin" -> "F_H_ORIGIN"
      [] kind = "hop" /\ field = "notes" -> "F_H_NOTES"
      [] kind = "yeast" /\ field = "name" -> "F_Y_NAME"
      [] kind = "yeast" /\ field = "lab" -> "F_Y_LAB"
      [] kind = "yeast" /\ field = "product_id" -> "F_Y_PRODUCT_ID"
      [] kind = "yeast" /\ field = "notes" -> "F_Y_NOTES"
      [] kind = "style" /\ field = "name" -> "F_S_NAME"
      [] kind = "style" /\ field = "category" -> "F_S_CATEGORY"
      [] kind = "style" /\ field = "notes" -> "F_S_NOTES"
      [] kind = "equipment" /\ field = "name" -> "F_E_NAME"
      [] kind = "equipment" /\ field = "notes" -> "F_E_NOTES"
      [] kind = "misc" /\ field = "name" -> "F_M_NAME"
      [] kind = "misc" /\ field = "notes" -> "F_M_NOTES"
      [] kind = "water" /\ field = "name" -> "F_W_NAME"
      [] kind = "water" /\ field = "notes" -> "F_W_NOTES"
      [] kind = "mash" /\ field = "name" -> "F_MH_NAME"
      [] kind = "mash" /\ field = "notes" -> "F_MH_NOTES"
      [] kind = "mashstep" /\ field = "name" -> "F_MS_NAME"
      [] kind = "recipe" /\ field = "id" -> "_PERMID_"
      [] kind = "recipe" /\ field = "name" -> "F_R_NAME"
      [] kind = "recipe" /\ field = "folder" -> "F_R_FOLDER_NAME"
      [] kind = "recipe" /\ field = "notes" -> "F_R_NOTES"
      [] OTHER -> ""

AuxField(kind) ==
    CASE kind = "yeast" -> "lab"
      [] kind = "style" -> "category"
      [] OTHER -> "origin"

\* the text of an optional field of a record, "" by default
TextOr(rec, key) ==
    IF key \in DOMAIN rec /\ rec[key].t = "str" THEN rec[key].s ELSE <<>>

\* model_validate succeeds
Validates(kind, rec) ==
    LET key == TagLower(Alias(kind, "name"))
    IN  key \in DOMAIN rec /\ rec[key].t = "str"

\* the entity model_validate returns
Entity(kind, rec) ==
    [name |-> rec[TagLower(Alias(kind, "name"))].s,
     aux |-> TextOr(rec, TagLower(Alias(kind, AuxField(kind)))),
     pid |-> TextOr(rec, TagLower(Alias(kind, "product_id"))),
     notes |-> TextOr(rec, TagLower(Alias(kind, "notes")))]

(***************************************************************************)
(* _parse_items: every item_tag child of every Data element, mapped and    *)
(* validated; an item that fails validation is skipped.                    *)
(***************************************************************************)
\* model_validate(item_dict): the entity, or nothing when it raises
Validated(kind, rec) ==
    IF Validates(kind, rec) THEN <<Entity(kind, rec)>> ELSE <<>>

\* as ParseElems, but the first item that fails validation ends the loop
RECURSIVE ParseElems_abort(_, _, _)
ParseElems_abort(d, elems, kind) ==
    IF elems = <<>> \/ ~Validates(kind, _element_to_dict(d, Head(elems))) THEN <<>>
    ELSE <<Entity(kind, _element_to_dict(d, Head(elems)))>>
         \o ParseElems_abort(d, Tail(elems), kind)

RECURSIVE ParseElems(_, _, _)
ParseElems(d, elems, kind) ==
    IF elems = <<>> THEN <<>>
    ELSE Validated(kind, _element_to_dict(d, Head(elems)))
         \o ParseElems(d, Tail(elems), kind)

RECURSIVE ParseDatas(_, _, _, _)
ParseDatas(d, datas, item_tag, kind) ==
    IF datas = <<>> THEN <<>>
    ELSE ParseElems(d, FindAll(d, Head(datas), item_tag), kind)
         \o ParseDatas(d, Tail(datas), item_tag, kind)

_parse_items(d, item_tag, kind) == ParseDatas(d, Iter(d, "Data"), item_tag, kind)

(***************************************************************************)
(* sorted(items, key=...): a stable insertion sort.                        *)
(***************************************************************************)
ByName(a, b) == StrLess(a.name, b.name)

\* key=(aux, name): by lab then name for yeasts, by category for styles
ByAuxName(a, b) ==
    StrLess(a.aux, b.aux) \/ (a.aux = b.aux /\ StrLess(a.name, b.name))

\* the sort key of each catalog query
KeyLess(kind, a, b) ==
    IF kind \in {"yeast", "style"} THEN ByAuxName(a, b) ELSE ByName(a, b)

RECURSIVE InsertSorted(_, _, _)
InsertSorted(sorted, x, kind) ==
    IF sorted = <<>> THEN <<x>>
    ELSE IF KeyLess(kind, x, Head(sorted)) THEN <<x>> \o sorted
    ELSE <<Head(sorted)>> \o InsertSorted(Tail(sorted), x, kind)

RECURSIVE SortedBy(_, _)
SortedBy(items, kind) ==
    IF items = <<>> THEN <<>>
    ELSE InsertSorted(SortedBy(SubSeq(items, 1, Len(items) - 1), kind),
                      items[Len(items)], kind)

----------------------------------------------------------------------------
(***************************************************************************)
(* The reader and its cache.  fs[f] is the file f of the data directory:   *)
(* whether it exists, its modification time and its content.  A cache      *)
(* entry is (mtime, tree); a tree is the parsed document and the identity  *)
(* of the object that holds it.  The operators take the cache c they start *)
(* from and return the cache they leave, so that a handler that reads      *)
(* several files is one step.                                              *)
(***************************************************************************)
NoTree == [id |-> 0 - 1, doc |-> <<>>]
NoEntry == [mtime |-> 0 - 1, tree |-> NoTree]

\* an object identity that differs from the one of the tree still cached
FreshId(c, f) == IF c[f] = NoEntry THEN 0 ELSE 1 - c[f].tree.id

\* the HTML_ENTITIES replacement on the text of every line
Cleaned(content) ==
    [i \in 1..Len(content) |->
        [content[i] EXCEPT !.val = ReplaceHtmlEntities(content[i].val)]]

\* self._cache[filename] = (mtime, root); return root
Stored(c, f, tree) ==
    [root |-> tree,
     cache |-> [c EXCEPT ![f] = [mtime |-> fs[f].mtime, tree |-> tree]],
     parsed |-> TRUE]

\* etree.fromstring(content): XMLSyntaxError is caught and None returned,
\* the cache is left as it was
Parsed(c, f, content) ==
    IF Parseable(content)
    THEN Stored(c, f, [id |-> FreshId(c, f), doc |-> RecoverParse(content)])
    ELSE [root |-> NoTree, cache |-> c, parsed |-> TRUE]

\* _parse_xml_file without the comparison of the timestamps
_parse_xml_file_unchecked(c, f) ==
    IF ~fs[f].exists THEN [root |-> NoTree, cache |-> c, parsed |-> FALSE]
    ELSE Parsed(c, f, Cleaned(fs[f].content))

\* _parse_xml_file with the cache consulted before the file is looked for
_parse_xml_file_cache_first(c, f) ==
    IF c[f] # NoEntry /\ (~fs[f].exists \/ c[f].mtime = fs[f].mtime)
    THEN [root |-> c[f].tree, cache |-> c, parsed |-> FALSE]
    ELSE IF ~fs[f].exists THEN [root |-> NoTree, cache |-> c, parsed |-> FALSE]
    ELSE Parsed(c, f, Cleaned(fs[f].content))

_parse_xml_file(c, f) ==
    IF ~fs[f].exists THEN [root |-> NoTree, cache |-> c, parsed |-> FALSE]
    ELSE IF c[f] # NoEntry /\ c[f].mtime = fs[f].mtime
         THEN [root |-> c[f].tree, cache |-> c, parsed |-> FALSE]
    ELSE Parsed(c, f, Cleaned(fs[f].content))

(***************************************************************************)
(* The catalog queries get_hops, get_grains, get_yeasts, get_styles and    *)
(* the lookups get_hop, get_grain, get_yeast, get_style.  search = <<>>    *)
(* stands for no search term (None and "" are both false in Python).       *)
(***************************************************************************)
\* the searchable fields: name and origin; name, lab and product id for a
\* yeast; name and category for a style
Searchable(kind, e, search_lower) ==
    \/ Contains(Lower(e.name), search_lower)
    \/ Contains(Lower(e.aux), search_lower)
    \/ kind = "yeast" /\ Contains(Lower(e.pid), search_lower)

\* the items of the tree just read, none when there is no tree
ItemsOf(root, kind) ==
    IF root = NoTree THEN <<>> ELSE _parse_items(root.doc, KindTag(kind), kind)

\* the catalog query without its filter
Filtered_all(all, kind, search) == all

\* the filter by search term
Filtered(all, kind, search) ==
    LET Hit(e) == Searchable(kind, e, Lower(search))
    IN  IF search # <<>> THEN SelectSeq(all, Hit) ELSE all

\* r is what _parse_xml_file returned
Listed(r, kind, search) ==
    [items |-> SortedBy(Filtered(ItemsOf(r.root, kind), kind, search), kind),
     cache |-> r.cache]

get_items(c, kind, search) == Listed(_parse_xml_file(c, KindFile(kind)), kind, search)

\* the exact match of a lookup: the name, or the product id of a yeast
ExactMatch(kind, e, name) ==
    \/ Lower(e.name) = Lower(name)
    \/ kind = "yeast" /\ Lower(e.pid) = Lower(name)

\* the first item, whether or not one matches exactly
FirstOf_unordered(exact, items) == IF items # <<>> THEN <<items[1]>> ELSE <<>>

\* the exact match when there is one, else the first item; a sequence of
\* length 0 (None) or 1
FirstOf(exact, items) ==
    IF exact # <<>> THEN <<exact[1]>>
    ELSE IF items # <<>> THEN <<items[1]>>
    ELSE <<>>

\* r is what the catalog query returned
Picked(r, kind, name) ==
    LET Exact(e) == ExactMatch(kind, e, name)
    IN  [item |-> FirstOf(SelectSeq(r.items, Exact), r.items), cache |-> r.cache]

get_item(c, kind, name) == Picked(get_items(c, kind, name), kind, name)

----------------------------------------------------------------------------
(***************************************************************************)
(* get_equipment_profiles and get_equipment.                               *)
(***************************************************************************)
\* content.split(sep) on tokens
RECURSIVE Split(_, _)
Split(toks, sep) ==
    LET at == {i \in 1..Len(toks) : toks[i] = sep}
    IN  IF at = {} THEN <<toks>>
        ELSE <<Slice(toks, 1, Min(at) - 1)>>
             \o Split(Slice(toks, Min(at) + 1, Len(toks)), sep)

\* e.name == item.name, the test that guards the append
SameName(a, b) == a.name = b.name

\* the part from its first <Equipment> on, closed
eq_content(part) ==
    Append(Slice(part, Min({n \in 1..Len(part) : part[n] = Open("Equipment")}),
                 Len(part)),
           Close("Equipment"))

\* the body of the inner try: the item is appended unless a record of the
\* list has its name; an item that does not validate is skipped
Appended(equipment, item_dict) ==
    IF /\ "f_e_name" \in DOMAIN item_dict
       /\ Validates("equipment", item_dict)
       /\ ~\E n \in 1..Len(equipment) :
                SameName(equipment[n], Entity("equipment", item_dict))
    THEN Append(equipment, Entity("equipment", item_dict))
    ELSE equipment

\* the loop over parts[1:]: i is the position of the part in parts
RECURSIVE ExtraEquipment(_, _, _)
ExtraEquipment(parts, i, equipment) ==
    IF i > Len(parts) THEN equipment
    ELSE IF \A n \in 1..Len(parts[i]) : parts[i][n] # Open("Equipment")
         THEN ExtraEquipment(parts, i + 1, equipment)
    ELSE ExtraEquipment(parts, i + 1,
            Appended(equipment,
                     _element_to_dict(RecoverParse(eq_content(parts[i])), 1)))

\* r is what _parse_xml_file returned
Profiles(r) ==
    IF r.root = NoTree THEN [items |-> <<>>, cache |-> r.cache]
    ELSE [items |->
            SortedBy(ExtraEquipment(Split(fs["Equipment.bsmx"].content,
                                          Close("Equipment")),
                                    2,
                                    _parse_items(r.root.doc, "Equipment", "equipment")),
                     "equipment"),
          cache |-> r.cache]

\* get_equipment_profiles without the eviction of the cache entry
get_equipment_profiles_cached(c) == Profiles(_parse_xml_file(c, "Equipment.bsmx"))

get_equipment_profiles(c) ==
    Profiles(_parse_xml_file([c EXCEPT !["Equipment.bsmx"] = NoEntry],
                             "Equipment.bsmx"))

\* the exact match, else the first partial match
FirstMatch(exact, partial) ==
    IF exact # <<>> THEN <<exact[1]>>
    ELSE IF partial # <<>> THEN <<partial[1]>>
    ELSE <<>>

\* r is what get_equipment_profiles returned
PickedEquipment(r, name) ==
    LET Exact(e) == Lower(e.name) = Lower(name)
        Partial(e) == Contains(Lower(e.name), Lower(name))
    IN  [item |-> FirstMatch(SelectSeq(r.items, Exact), SelectSeq(r.items, Partial)),
         cache |-> r.cache]

get_equipment(c, name) == PickedEquipment(get_equipment_profiles(c), name)

----------------------------------------------------------------------------
(***************************************************************************)
(* The write path: the recipe fragment, the folder wrapper and the two     *)
(* anchor patterns of add_recipe_to_beersmith.  A recipe is a record       *)
(* [id, name, folder, notes, style, equipment, steps, grains, hops,        *)
(* yeasts]: style and equipment are an entity or absent, steps, grains,    *)
(* hops and yeasts are names.  The fragment keeps the fields that carry    *)
(* text and every container element, and leaves out the fields that hold a *)
(* date or a number.                                                       *)
(***************************************************************************)
folder_name == <<"M", "C", "P", " ", "C", "r", "e", "a", "t", "e", "d">>

RECURSIVE StepLines(_)
StepLines(steps) ==
    IF steps = <<>> THEN <<>>
    ELSE <<Open("MashStep"), Fld("F_MS_NAME", _xml_escape(Head(steps))),
           Close("MashStep")>> \o StepLines(Tail(steps))

\* the lines of the grains, hops or yeasts of the recipe: names
RECURSIVE IngredientLines(_, _, _)
IngredientLines(tag, nameTag, names) ==
    IF names = <<>> THEN <<>>
    ELSE <<Open(tag), Fld(nameTag, _xml_escape(Head(names))), Close(tag)>>
         \o IngredientLines(tag, nameTag, Tail(names))

_generate_recipe_xml(recipe) ==
    <<Open("Recipe"),
      Fld("_PERMID_", recipe.id),
      Fld("F_R_NAME", _xml_escape(recipe.name)),
      Fld("F_R_FOLDER_NAME", _xml_escape(recipe.folder)),
      Fld("F_R_NOTES", _xml_escape(recipe.notes))>>
    \o (IF recipe.style = <<>> THEN <<>>
        ELSE <<Open("F_R_STYLE"),
               Fld("F_S_NAME", _xml_escape(recipe.style[1].name)),
               Fld("F_S_CATEGORY", _xml_escape(recipe.style[1].aux)),
               Close("F_R_STYLE")>>)
    \o (IF recipe.equipment = <<>> THEN <<>>
        ELSE <<Open("F_R_EQUIPMENT"),
               Fld("_PERMID_", <<"0">>),
               Fld("F_E_NAME", _xml_escape(recipe.equipment[1].name)),
               Fld("F_E_NOTES", _xml_escape(recipe.equipment[1].notes)),
               Close("F_R_EQUIPMENT")>>)
    \o (IF recipe.steps = <<>> THEN <<>>
        ELSE <<Open("F_R_MASH"), Open("steps"), Open("Data")>>
             \o StepLines(recipe.steps)
             \o <<Close("Data"), Close("steps"), Close("F_R_MASH")>>)
    \o <<Open("Ingredients"), Open("Data")>>
    \o IngredientLines("Grain", "F_G_NAME", recipe.grains)
    \o IngredientLines("Hops", "F_H_NAME", recipe.hops)
    \o IngredientLines("Yeast", "F_Y_NAME", recipe.yeasts)
    \o <<Close("Data"), Close("Ingredients"), Close("Recipe")>>

\* the new "MCP Created" folder around one fragment
folder_xml(recipe_xml) ==
    <<Open("Table"), Fld("_PERMID_", <<"9", "9", "9", "9">>),
      Fld("Name", folder_name), Open("Data")>>
    \o recipe_xml
    \o <<Close("Data"), Fld("_TExpanded", <<"1">>), Fld("TExtra", <<"0">>),
         Fld("TxLog", <<"0">>), Close("Table")>>

\* the least index above `from` that satisfies the test, 0 when none does
FirstAfter(toks, from, Test(_)) ==
    LET at == {i \in (from + 1)..Len(toks) : Test(i)}
    IN  IF at = {} THEN 0 ELSE Min(at)

(***************************************************************************)
(* re.search of                                                            *)
(*   <Table>.*?<Name>MCP Created</Name>.*?<Data>(.*?)</Data>.*?</Table>    *)
(* with DOTALL: the leftmost <Table> from which the whole pattern can be   *)
(* completed, and after it the nearest name, the nearest <Data> and the    *)
(* nearest </Data> from which the rest can still be completed.  The result *)
(* is folder_match.end(1) as the index of that </Data> token, 0 when the   *)
(* pattern does not match.                                                 *)
(***************************************************************************)
FolderEnd(toks, name) ==
    LET TableAfter(l) == \E m \in (l + 1)..Len(toks) : toks[m] = Close("Table")
        EndFor(k) ==
            LET T(l) == toks[l] = Close("Data") /\ TableAfter(l)
            IN  FirstAfter(toks, k, T)
        DataFor(j) ==
            LET T(k) == toks[k] = Open("Data") /\ EndFor(k) # 0
            IN  FirstAfter(toks, j, T)
        NameFor(i) ==
            LET T(j) == toks[j] = Fld("Name", name) /\ DataFor(j) # 0
            IN  FirstAfter(toks, i, T)
        Start(i) == toks[i] = Open("Table") /\ NameFor(i) # 0
        start == FirstAfter(toks, 0, Start)
    IN  IF start = 0 THEN 0 ELSE EndFor(DataFor(NameFor(start)))

\* the pattern with the folder's name in lower case
FolderDataEnd_lower(toks) == FolderEnd(toks, Lower(folder_name))

FolderDataEnd(toks) == FolderEnd(toks, folder_name)

(***************************************************************************)
(* re.search of end_pattern: the first </Data> that is followed by the     *)
(* _TExpanded and TExtra elements and by <TxLog>1</TxLog>; match.start()   *)
(* as the index of that </Data> token, 0 when the pattern does not match.  *)
(***************************************************************************)
InsertPos(toks) ==
    LET T(i) == /\ i + 3 <= Len(toks)
                /\ toks[i] = Close("Data")
                /\ toks[i + 1].k = "field" /\ toks[i + 1].tag = "_TExpanded"
                /\ toks[i + 2].k = "field" /\ toks[i + 2].tag = "TExtra"
                /\ toks[i + 3] = Fld("TxLog", <<"1">>)
    IN  FirstAfter(toks, 0, T)

\* content[:pos] + fragment + content[pos:], pos the index of a token
InsertBefore(toks, pos, fragment) ==
    Slice(toks, 1, pos - 1) \o fragment \o Slice(toks, pos, Len(toks))

----------------------------------------------------------------------------
(***************************************************************************)
(* The write path: update_ingredient and _update_xml_fields.               *)
(***************************************************************************)
\* type_map: the file and the tag update_ingredient works on; the model
\* class is named by the kind
TypeFile(type) ==
    CASE type = "grain" -> "Grain.bsmx"
      [] type = "hop" -> "Hop.bsmx"
      [] type = "yeast" -> "Yeast.bsmx"
      [] type = "misc" -> "Misc.bsmx"

TypeTag(type) ==
    CASE type = "grain" -> "Grain"
      [] type = "hop" -> "Hop"
      [] type = "yeast" -> "Yeast"
      [] type = "misc" -> "Misc"

\* filename.replace('.bsmx', '')
Stem(f) ==
    CASE f = "Grain.bsmx" -> "Grain"
      [] f = "Hop.bsmx" -> "Hop"
      [] f = "Yeast.bsmx" -> "Yeast"
      [] f = "Misc.bsmx" -> "Misc"
      [] f = "Recipe.bsmx" -> "Recipe"
      [] OTHER -> f

\* re.finditer of <tag>.*?</tag> with DOTALL: the non-overlapping spans
\* from an opening tag to the nearest closing tag, as pairs of indices
RECURSIVE Chunks(_, _, _)
Chunks(toks, tag, from) ==
    LET IsOpen(i) == toks[i] = Open(tag)
        i == FirstAfter(toks, from, IsOpen)
        IsClose(j) == toks[j] = Close(tag)
        j == FirstAfter(toks, i, IsClose)
    IN  IF i = 0 \/ j = 0 THEN <<>>
        ELSE <<<<i, j>>>> \o Chunks(toks, tag, j)

\* f"F_{field_name.upper()}" for the field names the model passes
FallbackTag(field) ==
    CASE field = "notes" -> "F_NOTES"
      [] field = "name" -> "F_NAME"
      [] field = "colour" -> "F_COLOUR"
      [] OTHER -> "F_"

DigitChar(n) ==
    CASE n = 0 -> "0" [] n = 1 -> "1" [] n = 2 -> "2" [] n = 3 -> "3"
      [] n = 4 -> "4" [] n = 5 -> "5" [] n = 6 -> "6" [] n = 7 -> "7"
      [] n = 8 -> "8" [] OTHER -> "9"

\* str(n) for n >= 0
RECURSIVE Decimal(_)
Decimal(n) ==
    IF n < 10 THEN <<DigitChar(n)>> ELSE Decimal(n \div 10) \o <<DigitChar(n % 10)>>

\* str(n)
IntText(n) == IF n < 0 THEN <<"-">> \o Decimal(0 - n) ELSE Decimal(n)

DigitStr(n) == IF n = 1 THEN <<"1">> ELSE <<"0">>

BoolV(b) == [t |-> "bool", n |-> IF b THEN 1 ELSE 0, s |-> <<>>]

RECURSIVE LStripZeros(_)
LStripZeros(s) == IF s # <<>> /\ Head(s) = "0" THEN LStripZeros(Tail(s)) ELSE s

\* f"{new_value:.7f}" for a float held as a decimal numeral without
\* exponent and with at most seven decimals: the sign, the integer part,
\* the decimals filled up with zeros
Fixed7(s) ==
    LET u == SelectSeq(Unsigned(s), NotUnderscore)
        dots == {i \in 1..Len(u) : u[i] = "."}
        dot == IF dots = {} THEN Len(u) + 1 ELSE Min(dots)
        int_part == LStripZeros(Slice(u, 1, dot - 1))
        decimals == Slice(u, dot + 1, Len(u))
    IN  (IF Head(s) = "-" THEN <<"-">> ELSE <<>>)
        \o (IF int_part = <<>> THEN <<"0">> ELSE int_part)
        \o <<".">> \o decimals \o [i \in 1..(7 - Len(decimals)) |-> "0"]

\* the text written for a new value: a str is escaped, a bool becomes 1 or
\* 0, a float is written with seven decimals, an int as it prints
Coerce(value) ==
    CASE value.t = "str" -> _xml_escape(value.s)
      [] value.t = "bool" -> DigitStr(value.n)
      [] value.t = "float" -> Fixed7(value.s)
      [] value.t = "int" -> IntText(value.n)

\* re.sub(pattern, replacement, xml, count=1): the first <tag>...</tag> on
\* one line is rewritten; nothing changes when the tag does not occur
SubFirst(xml, xml_tag, text) ==
    LET IsTag(i) == xml[i].k = "field" /\ xml[i].tag = xml_tag
        at == FirstAfter(xml, 0, IsTag)
    IN  IF at = 0 THEN xml ELSE [xml EXCEPT ![at] = Fld(xml_tag, text)]

\* updates is the sequence of the (field, value) items of the dict
RECURSIVE _update_xml_fields(_, _, _)
_update_xml_fields(xml_str, updates, kind) ==
    IF updates = <<>> THEN xml_str
    ELSE LET u == Head(updates)
             xml_tag == IF Alias(kind, u.field) # "" THEN Alias(kind, u.field)
                        ELSE FallbackTag(u.field)
         IN  _update_xml_fields(SubFirst(xml_str, xml_tag, Coerce(u.value)),
                                Tail(updates), kind)

\* str.replace(old, new): every occurrence, from left to right
RECURSIVE Replace(_, _, _)
Replace(toks, old, new) ==
    LET at == {i \in 1..(Len(toks) - Len(old) + 1) :
                    SubSeq(toks, i, i + Len(old) - 1) = old}
        first == Min(at)
    IN  IF at = {} THEN toks
        ELSE Slice(toks, 1, first - 1) \o new
             \o Replace(Drop(toks, first + Len(old) - 1), old, new)

\* the test of the loop: the chunk validates and carries the name
IsIngredient(kind, item_dict, ingredient_name) ==
    /\ Validates(kind, item_dict)
    /\ Lower(Entity(kind, item_dict).name) = Lower(ingredient_name)

\* the loop over the matches: the first chunk that validates and carries
\* the name; <<>> when there is none, else <<chunk, updated chunk>>
RECURSIVE FindIngredient(_, _, _, _, _)
FindIngredient(content, matches, kind, ingredient_name, updates) ==
    IF matches = <<>> THEN <<>>
    ELSE IF IsIngredient(kind,
                _element_to_dict(
                    RecoverParse(SubSeq(content, Head(matches)[1], Head(matches)[2])), 1),
                ingredient_name)
         THEN <<SubSeq(content, Head(matches)[1], Head(matches)[2]),
                _update_xml_fields(SubSeq(content, Head(matches)[1], Head(matches)[2]),
                                   updates, kind)>>
    ELSE FindIngredient(content, Tail(matches), kind, ingredient_name, updates)

\* re.sub(r'[^\w\-_]', '_', recipe.name): the export file's name
Sanitize(name) ==
    [i \in 1..Len(name) |-> IF name[i] \in {" ", "&"} THEN "_" ELSE name[i]]

----------------------------------------------------------------------------
(***************************************************************************)
(* The data directory and the inputs of the model.                         *)
(***************************************************************************)
Files == {"Recipe.bsmx", "Grain.bsmx", "Hops.bsmx", "Hop.bsmx", "Yeast.bsmx",
          "Misc.bsmx", "Style.bsmx", "Equipment.bsmx", "Water.bsmx",
          "Mash.bsmx", "Cloud.bsmx"}

Missing == [exists |-> FALSE, mtime |-> 0, content |-> <<>>]
File(content) == [exists |-> TRUE, mtime |-> 0, content |-> content]

\* the names the model uses
Pa == <<"P", "a">>
Pb == <<"P", "b">>
PA == <<"P", "A">>
BA == <<"B", "A">>
Ca == <<"C", "a">>
Ab == <<"A", "b">>
Ba == <<"B", "a">>
Ma == <<"M", "a">>
Zz == <<"0", "0">>

\* one catalog item
Item(tag, nameTag, name, notesTag, notes) ==
    <<Open(tag), Fld(nameTag, name), Fld(notesTag, notes), Close(tag)>>

\* BeerSmith's table around the items of a catalog
RECURSIVE Flatten(_)
Flatten(seqs) == IF seqs = <<>> THEN <<>> ELSE Head(seqs) \o Flatten(Tail(seqs))

Table(tag, items) ==
    <<Open(tag), Fld("_PERMID_", <<"0">>), Open("Data")>>
    \o Flatten(items)
    \o <<Close("Data"), Fld("_TExpanded", <<"1">>), Close(tag)>>

Grain(name, notes) == Item("Grain", "F_G_NAME", name, "F_G_NOTES", notes)

\* the close of the main data section, with the TxLog value txlog
MainClose(txlog) ==
    <<Close("Data"), Fld("_TExpanded", <<"1">>), Fld("TExtra", <<"0">>),
      Fld("TxLog", txlog), Close("Recipe")>>

\* a folder of Recipe.bsmx, empty
Folder(name) ==
    <<Open("Table"), Fld("Name", name), Open("Data"), Close("Data"),
      Fld("_TExpanded", <<"1">>), Fld("TExtra", <<"0">>), Fld("TxLog", <<"0">>),
      Close("Table")>>

\* Recipe.bsmx: the folders of the main data section and the TxLog value
RecipeFile(folders, txlog) ==
    <<Open("Recipe"), Fld("_PERMID_", <<"0">>), Open("Data")>>
    \o Flatten(folders) \o MainClose(txlog)

Recipe(name, notes, steps, grains) ==
    [id |-> <<"0">>, name |-> name, folder |-> <<"/">> \o folder_name \o <<"/">>,
     notes |-> notes, style |-> <<>>, equipment |-> <<>>, steps |-> steps,
     grains |-> grains, hops |-> <<>>, yeasts |-> <<>>]

\* the recipes handed to add_recipe_to_beersmith and save_recipe
RecipeInputs ==
    {Recipe(Ab, <<>>, <<>>, <<>>),
     Recipe(Ab, <<"&">>, <<Ma>>, <<Pa>>)}

\* the result of the last operation
Ret(op) ==
    [op |-> op, file |-> "", ok |-> TRUE, err |-> "", tree |-> NoTree,
     parsed |-> FALSE, items |-> <<>>]

Raise(op, err) == [Ret(op) EXCEPT !.ok = FALSE, !.err = err]

\* the number of recipes stored in a recipe file
NumRecipes(toks) == Cardinality({i \in 2..Len(toks) : toks[i] = Open("Recipe")})

----------------------------------------------------------------------------
(***************************************************************************)
(* The state after construction: an empty cache, no backup, no export.     *)
(***************************************************************************)
InitParser ==
    /\ cache = [f \in Files |-> NoEntry]
    /\ backups = {}
    /\ exports = {}
    /\ dirs = {}
    /\ now = 0
    /\ candidates = None
    /\ ret = Ret("init")

Catalogs ==
    [f \in Files |->
        CASE f = "Recipe.bsmx" -> File(RecipeFile(<<>>, <<"1">>))
          [] f = "Grain.bsmx" -> File(Table("Grain", <<Grain(Pb, <<>>), Grain(Pa, <<>>)>>))
          [] f = "Hops.bsmx" ->
                File(Table("Hops", <<Item("Hops", "F_H_NAME", Ca, "F_H_NOTES", <<>>)>>))
          [] f = "Yeast.bsmx" ->
                File(Table("Yeast", <<Item("Yeast", "F_Y_NAME", Ab, "F_Y_LAB", Ba)>>))
          [] f = "Style.bsmx" ->
                File(Table("Style", <<Item("Style", "F_S_NAME", Pa, "F_S_CATEGORY", Ab)>>))
          [] f = "Equipment.bsmx" ->
                File(Table("Equipment",
                           <<Item("Equipment", "F_E_NAME", Ba, "F_E_NOTES", <<>>)>>))
          [] OTHER -> Missing]

Init ==
    /\ InitParser
    /\ fs = Catalogs

(***************************************************************************)
(* The clock of the file system and of datetime.now(), and what other      *)
(* programs do to the files.                                               *)
(***************************************************************************)
Tick ==
    /\ now < MaxTime
    /\ now' = now + 1
    /\ UNCHANGED <<fs, cache, backups, exports, dirs, ret, candidates>>

Touch(f) ==
    /\ fs[f].exists
    /\ fs[f].mtime # now
    /\ fs' = [fs EXCEPT ![f].mtime = now]
    /\ ret' = Ret("touch")
    /\ UNCHANGED <<cache, backups, exports, dirs, now, candidates>>

\* another program rewrites the file
Rewrite(f, content) ==
    /\ fs[f].exists
    /\ fs[f].content # content
    /\ fs' = [fs EXCEPT ![f] = [exists |-> TRUE, mtime |-> now, content |-> content]]
    /\ ret' = Ret("rewrite")
    /\ UNCHANGED <<cache, backups, exports, dirs, now, candidates>>

(***************************************************************************)
(* _parse_xml_file as a step of its own: any read of file f.               *)
(***************************************************************************)
ReadAs(f, r) ==
    /\ cache' = r.cache
    /\ ret' = [Ret("read") EXCEPT !.file = f, !.tree = r.root,
                                  !.parsed = r.parsed, !.ok = r.root # NoTree]

Read(f) ==
    /\ ReadAs(f, _parse_xml_file(cache, f))
    /\ UNCHANGED <<fs, backups, exports, dirs, now, candidates>>

----------------------------------------------------------------------------
(***************************************************************************)
(* The write operations.  Each is given as the effect it has on the state  *)
(* of the data directory and the parser, st = [fs, cache, backups, dirs,   *)
(* exports], together with its outcome, so that create_recipe can run two  *)
(* of them in one step.                                                    *)
(***************************************************************************)
State == [fs |-> fs, cache |-> cache, backups |-> backups, dirs |-> dirs,
          exports |-> exports]

Outcome(st, ok, err) == [st |-> st, ok |-> ok, err |-> err]

\* shutil.copy2 to <stem>_backup_<timestamp>.bsmx: a backup taken at the
\* same timestamp has the same name and is overwritten
PutBackup(b, stem, content) ==
    {x \in b : ~(x.stem = stem /\ x.ts = now)}
    \cup {[stem |-> stem, ts |-> now, content |-> content]}

\* path.write_text(content)
WriteFile(files, f, content) ==
    [files EXCEPT ![f] = [exists |-> TRUE, mtime |-> now, content |-> content]]

\* the backup made at the start of a write operation
Backed(st, f) ==
    [st EXCEPT !.dirs = @ \cup {"mcp_backups"},
               !.backups = PutBackup(@, Stem(f), st.fs[f].content)]

\* the file is written and the cache kept as it is
Written_cache_kept(st, f, new_content, evicted) ==
    [st EXCEPT !.fs = WriteFile(@, f, new_content)]

\* the file is written and the cache dropped: all of it when evicted is the
\* set of all files
Written(st, f, new_content, evicted) ==
    [st EXCEPT !.fs = WriteFile(@, f, new_content),
               !.cache = [g \in Files |-> IF g \in evicted THEN NoEntry ELSE @[g]]]

\* as Spliced, but with neither the folder nor the anchor the new folder
\* goes before the last line of the file
Spliced_guess(st, f, recipe_xml, folder_data_end, insert_pos) ==
    Outcome(Written(st, f,
                    InsertBefore(st.fs[f].content,
                                 IF folder_data_end # 0 THEN folder_data_end
                                 ELSE IF insert_pos # 0 THEN insert_pos
                                 ELSE Len(st.fs[f].content),
                                 IF folder_data_end # 0 THEN recipe_xml
                                 ELSE folder_xml(recipe_xml)),
                    Files),
            TRUE, "")

\* the fragment goes into the folder when there is one, else a new folder
\* goes before the anchor; with neither, ValueError
Spliced(st, f, recipe_xml, folder_data_end, insert_pos) ==
    IF folder_data_end # 0
    THEN Outcome(Written(st, f, InsertBefore(st.fs[f].content, folder_data_end,
                                             recipe_xml), Files),
                 TRUE, "")
    ELSE IF insert_pos # 0
    THEN Outcome(Written(st, f, InsertBefore(st.fs[f].content, insert_pos,
                                             folder_xml(recipe_xml)), Files),
                 TRUE, "")
    ELSE Outcome(st, FALSE, "ValueError")

add_recipe_to_beersmith(st, recipe) ==
    IF ~st.fs["Recipe.bsmx"].exists THEN Outcome(st, FALSE, "FileNotFoundError")
    ELSE Spliced(Backed(st, "Recipe.bsmx"), "Recipe.bsmx",
                 _generate_recipe_xml(recipe),
                 FolderDataEnd(st.fs["Recipe.bsmx"].content),
                 InsertPos(st.fs["Recipe.bsmx"].content))

\* found is what the loop over the matches returned
Updated(st, f, found) ==
    IF found = <<>> THEN Outcome(st, FALSE, "ValueError")
    ELSE Outcome(Written(st, f, Replace(st.fs[f].content, found[1], found[2]), {f}),
                 TRUE, "")

\* update_ingredient with the backup made before the file is looked for
update_ingredient_backup_first(st, ingredient_type, ingredient_name, updates) ==
    IF ingredient_type \notin {"grain", "hop", "yeast", "misc"}
    THEN Outcome(st, FALSE, "ValueError")
    ELSE IF ~st.fs[TypeFile(ingredient_type)].exists
    THEN Outcome(Backed(st, TypeFile(ingredient_type)), FALSE, "FileNotFoundError")
    ELSE Updated(Backed(st, TypeFile(ingredient_type)), TypeFile(ingredient_type),
                 FindIngredient(st.fs[TypeFile(ingredient_type)].content,
                                Chunks(st.fs[TypeFile(ingredient_type)].content,
                                       TypeTag(ingredient_type), 0),
                                ingredient_type, ingredient_name, updates))

update_ingredient(st, ingredient_type, ingredient_name, updates) ==
    IF ingredient_type \notin {"grain", "hop", "yeast", "misc"}
    THEN Outcome(st, FALSE, "ValueError")
    ELSE IF ~st.fs[TypeFile(ingredient_type)].exists
    THEN Outcome(st, FALSE, "FileNotFoundError")
    ELSE Updated(Backed(st, TypeFile(ingredient_type)), TypeFile(ingredient_type),
                 FindIngredient(st.fs[TypeFile(ingredient_type)].content,
                                Chunks(st.fs[TypeFile(ingredient_type)].content,
                                       TypeTag(ingredient_type), 0),
                                ingredient_type, ingredient_name, updates))

\* the export file: the fragment inside a table named "MCP Export"
full_xml(xml_content) ==
    <<Open("Recipe"), Fld("_PERMID_", <<"0">>), Open("Data")>>
    \o xml_content \o <<Close("Data"), Close("Recipe")>>

\* filepath.write_text(full_xml): a file of that name is overwritten
PutExport(e, filename, content) ==
    {x \in e : x.name # filename} \cup {[name |-> filename, content |-> content]}

\* filepath.write_text opens <sanitized name>.bsmx: the file system
\* refuses a name of more than 255 characters with an OSError
FileNameFits(name) == Len(Sanitize(name)) + Len(<<".", "b", "s", "m", "x">>) <= 255

save_recipe(st, recipe) ==
    IF ~FileNameFits(recipe.name)
    THEN Outcome([st EXCEPT !.dirs = @ \cup {"MCP_Exports"}], FALSE, "OSError")
    ELSE Outcome([st EXCEPT !.dirs = @ \cup {"MCP_Exports"},
                            !.exports = PutExport(@, Sanitize(recipe.name),
                                                  full_xml(_generate_recipe_xml(recipe)))],
                 TRUE, "")

\* the step of an operation that ends in state out.st with result r
Becomes(out, r) ==
    /\ fs' = out.st.fs
    /\ cache' = out.st.cache
    /\ backups' = out.st.backups
    /\ dirs' = out.st.dirs
    /\ exports' = out.st.exports
    /\ ret' = [r EXCEPT !.ok = out.ok, !.err = out.err]
    /\ UNCHANGED candidates

AddRecipe(recipe) ==
    /\ NumRecipes(fs["Recipe.bsmx"].content) < MaxRecipes
    /\ Becomes(add_recipe_to_beersmith(State, recipe),
               [Ret("add_recipe_to_beersmith") EXCEPT !.file = "Recipe.bsmx"])
    /\ UNCHANGED now

UpdateIngredient(ingredient_type, ingredient_name, updates) ==
    LET out == update_ingredient(State, ingredient_type, ingredient_name, updates)
        f == IF ingredient_type \in {"grain", "hop", "yeast", "misc"}
             THEN TypeFile(ingredient_type) ELSE ""
    IN  /\ Becomes(out, [Ret("update_ingredient") EXCEPT !.file = f])
        /\ UNCHANGED now

SaveRecipe(recipe) ==
    LET out == save_recipe(State, recipe)
    IN  /\ Becomes(out, [Ret("save_recipe") EXCEPT !.file = "MCP_Exports"])
        /\ UNCHANGED now

----------------------------------------------------------------------------
(***************************************************************************)
(* The create_recipe tool of the server.  Its input is a record            *)
(* [name, notes, style_name, equipment_name, yeast_name, grains, hops],    *)
(* grains and hops being the names of the two JSON arrays.                 *)
(***************************************************************************)
\* the suggestions of a failed lookup: the catalog is listed
Suggested(c, kind) == get_items(c, kind, <<>>).cache

\* the loop over the grains or the hops: it returns at the first name
\* that is not found
RECURSIVE LookupAll(_, _, _, _)
Looked(r, kind, names, found) ==
    IF r.item = <<>>
    THEN [ok |-> FALSE, items |-> found, cache |-> Suggested(r.cache, kind)]
    ELSE LookupAll(r.cache, kind, Tail(names), found \o r.item)

LookupAll(c, kind, names, found) ==
    IF names = <<>> THEN [ok |-> TRUE, items |-> found, cache |-> c]
    ELSE Looked(get_item(c, kind, Head(names)), kind, names, found)

Names(items) == [i \in 1..Len(items) |-> items[i].name]

\* the state the tool leaves when it returns without writing
After(st, c) == [st EXCEPT !.cache = c]

\* try: add_recipe_to_beersmith, then save_recipe; any exception is
\* reported as "Error saving recipe"
Saved(added, recipe) ==
    IF ~added.ok THEN Outcome(added.st, FALSE, "Error saving recipe")
    ELSE IF ~save_recipe(added.st, recipe).ok
    THEN Outcome(save_recipe(added.st, recipe).st, FALSE, "Error saving recipe")
    ELSE save_recipe(added.st, recipe)

Created(st, recipe) == Saved(add_recipe_to_beersmith(st, recipe), recipe)

WithHops(st, in, style, equipment, yeast, grains, hops) ==
    IF ~hops.ok THEN Outcome(After(st, hops.cache), FALSE, "Hop not found")
    ELSE Created(After(st, hops.cache),
                 [id |-> <<"0">>, name |-> in.name,
                  folder |-> <<"/">> \o folder_name \o <<"/">>,
                  notes |-> in.notes, style |-> style.item,
                  equipment |-> equipment.item, steps |-> <<>>,
                  grains |-> Names(grains.items), hops |-> Names(hops.items),
                  yeasts |-> Names(yeast.item)])

WithGrains(st, in, style, equipment, yeast, grains) ==
    IF ~grains.ok THEN Outcome(After(st, grains.cache), FALSE, "Grain not found")
    ELSE WithHops(st, in, style, equipment, yeast, grains,
                  LookupAll(grains.cache, "hop", in.hops, <<>>))

WithYeast(st, in, style, equipment, yeast) ==
    IF yeast.item = <<>> THEN Outcome(After(st, yeast.cache), FALSE, "Yeast not found")
    ELSE WithGrains(st, in, style, equipment, yeast,
                    LookupAll(yeast.cache, "grain", in.grains, <<>>))

WithEquipment(st, in, style, equipment) ==
    IF equipment.item = <<>>
    THEN Outcome(After(st, equipment.cache), FALSE, "Equipment not found")
    ELSE WithYeast(st, in, style, equipment,
                   get_item(equipment.cache, "yeast", in.yeast_name))

WithStyle(st, in, style) ==
    IF style.item = <<>> THEN Outcome(After(st, style.cache), FALSE, "Style not found")
    ELSE WithEquipment(st, in, style, get_equipment(style.cache, in.equipment_name))

create_recipe(st, in) == WithStyle(st, in, get_item(st.cache, "style", in.style_name))

CreateRecipe(in) ==
    /\ NumRecipes(fs["Recipe.bsmx"].content) < MaxRecipes
    /\ Becomes(create_recipe(State, in),
               [Ret("create_recipe") EXCEPT !.file = "Recipe.bsmx"])
    /\ UNCHANGED now

----------------------------------------------------------------------------
(***************************************************************************)
(* SpecCache: one parser reads Grain.bsmx while the clock advances and     *)
(* other programs touch or rewrite the file.                               *)
(***************************************************************************)
NextCache ==
    \/ Tick
    \/ \E f \in {"Grain.bsmx", "Hop.bsmx"} : Read(f)
    \/ Touch("Grain.bsmx")
    \/ \E content \in {<<>>, Table("Grain", <<Grain(Pa, Pb)>>),
                       Table("Grain", <<Grain(Pb, <<>>), Grain(Pa, <<>>)>>)} :
            Rewrite("Grain.bsmx", content)

SpecCache == Init /\ [][NextCache]_vars

----------------------------------------------------------------------------
(***************************************************************************)
(* Spec: one parser reads and writes the files of the data directory: the  *)
(* write operations, the create_recipe tool and the reads between them.    *)
(***************************************************************************)
Update(field, value) == [field |-> field, value |-> value]

CreateInput(style, equipment, yeast, grains, hops) ==
    [name |-> Ca, notes |-> <<>>, style_name |-> style,
     equipment_name |-> equipment, yeast_name |-> yeast,
     grains |-> grains, hops |-> hops]

CreateInputs ==
    {CreateInput(Pa, Ba, Ab, <<Pa>>, <<Ca>>),
     CreateInput(Zz, Ba, Ab, <<Pa>>, <<Ca>>),
     CreateInput(Pa, Zz, Ab, <<Pa>>, <<Ca>>),
     CreateInput(Pa, Ba, Zz, <<Pa>>, <<Ca>>),
     CreateInput(Pa, Ba, Ab, <<Zz>>, <<Ca>>),
     CreateInput(Pa, Ba, Ab, <<Pa>>, <<Zz>>)}

UpdateInputs ==
    {<<Update("notes", StrV(<<"&">>))>>,
     <<Update("name", StrV(Ca)), Update("colour", StrV(Pa))>>}

Next ==
    \/ Tick
    \/ \E f \in {"Recipe.bsmx", "Grain.bsmx"} : Read(f)
    \/ \E recipe \in RecipeInputs : AddRecipe(recipe)
    \/ \E name \in {PA, Zz} :
            UpdateIngredient("grain", name, <<Update("notes", StrV(<<"&">>))>>)

Spec == Init /\ [][Next]_vars

----------------------------------------------------------------------------
(***************************************************************************)
(* SpecWrite: the operations that write, and the create_recipe tool, with  *)
(* names that are in the catalogs and names that are not.                  *)
(***************************************************************************)
NextWrite ==
    \/ Tick
    \/ AddRecipe(Recipe(Ab, <<>>, <<>>, <<>>))
    \/ \E recipe \in RecipeInputs : SaveRecipe(recipe)
    \/ \E type \in {"grain", "wine"}, updates \in UpdateInputs :
            UpdateIngredient(type, PA, updates)

SpecWrite == Init /\ [][NextWrite]_vars

----------------------------------------------------------------------------
(***************************************************************************)
(* SpecMutate: the operations that look an entity up by name before they   *)
(* change a file, called with names that are in the catalogs and names     *)
(* that are not.                                                           *)
(***************************************************************************)
NextMutate ==
    \/ Tick
    \/ \E type \in {"grain", "hop"}, name \in {PA, Zz} :
            UpdateIngredient(type, name, <<Update("notes", StrV(<<"&">>))>>)
    \/ \E in \in CreateInputs : CreateRecipe(in)

SpecMutate == Init /\ [][NextMutate]_vars

----------------------------------------------------------------------------
(***************************************************************************)
(* The cache of the reader.                                                *)
(***************************************************************************)
\* the step is a read of the existing file f by _parse_xml_file
IsRead(f) ==
    /\ ret'.op = "read" /\ ret'.file = f
    /\ UNCHANGED <<fs, now>>
    /\ fs[f].exists

\* the read found an entry with the timestamp the file has: the cached
\* tree object is returned, nothing is parsed, the cache stays as it is
ReadHit(f) ==
    (cache[f] # NoEntry /\ cache[f].mtime = fs[f].mtime)
        => /\ ret'.tree = cache[f].tree
           /\ ~ret'.parsed
           /\ cache' = cache

\* the read found an entry with another timestamp
Changed(f) == cache[f] # NoEntry /\ cache[f].mtime # fs[f].mtime

\* the file is parsed again and the entry becomes (new timestamp, new tree)
Reparsed(f) ==
    /\ ret'.parsed
    /\ ret'.tree # NoTree
    /\ ret'.tree.doc = RecoverParse(Cleaned(fs[f].content))
    /\ ret'.tree.id # cache[f].tree.id
    /\ cache' = [cache EXCEPT ![f] = [mtime |-> fs[f].mtime, tree |-> ret'.tree]]

\* C1 as stated: a read while the file's timestamp equals the cached one
\* returns the identical cached tree without parsing, and a read after the
\* timestamp has changed parses the file again and replaces the cache entry
\* with (new timestamp, new tree).
C1_AsStated ==
    [][\A f \in Files :
        IsRead(f) => /\ ReadHit(f)
                     /\ Changed(f) => Reparsed(f)]_vars

\* C1 amended: a read while the file's timestamp equals the cached one
\* returns the identical cached tree without parsing; a read after the
\* timestamp has changed parses the file again and, when the parser builds
\* a tree, replaces the cache entry with (new timestamp, new tree); when the
\* parser raises XMLSyntaxError the read returns None and the entry stays.
C1_CacheByTimestamp ==
    [][\A f \in Files :
        IsRead(f) =>
            /\ ReadHit(f)
            /\ (Changed(f) /\ Parseable(Cleaned(fs[f].content))) => Reparsed(f)
            /\ (Changed(f) /\ ~Parseable(Cleaned(fs[f].content)))
                    => /\ ret'.parsed
                       /\ ret'.tree = NoTree
                       /\ cache' = cache]_vars

\* a read has replaced the tree an earlier read had cached
C1_Witness ==
    /\ ret.op = "read" /\ ret.parsed
    /\ ret.tree.id = 1
    /\ cache[ret.file] = [mtime |-> fs[ret.file].mtime, tree |-> ret.tree]

----------------------------------------------------------------------------
(***************************************************************************)
(* Backups, and the cache after a write.                                   *)
(***************************************************************************)
\* the step is the operation op of the parser (the clock stands still
\* while an operation runs)
IsOp(op) == ret'.op = op /\ UNCHANGED now

\* a backup holds the content
BackedUp(b, content) == \E x \in b : x.content = content

\* C2 as stated: every write operation (add_recipe_to_beersmith,
\* update_ingredient, save_recipe) makes a backup of the file it is about to
\* change before it changes it: whenever the content of a file is modified
\* or overwritten, a backup file holds the content the file had.
C2_AsStated ==
    [][/\ \A f \in Files :
            (fs[f].exists /\ fs'[f].content # fs[f].content)
                => BackedUp(backups', fs[f].content)
       /\ \A x \in exports : \A y \in exports' :
            (y.name = x.name /\ y.content # x.content)
                => BackedUp(backups', x.content)]_vars

\* C3: after every successful add_recipe_to_beersmith or update_ingredient
\* the cache holds no entry for the file that was written, and every read
\* returns a tree parsed from the content the file has, never the tree of
\* the content it had before a write.
C3_NoStaleTree ==
    [][/\ \A op \in {"add_recipe_to_beersmith", "update_ingredient"} :
            (IsOp(op) /\ ret'.ok /\ fs' # fs) => cache'[ret'.file] = NoEntry
       /\ \A f \in Files :
            (IsRead(f) /\ ret'.tree # NoTree)
                => ret'.tree.doc = RecoverParse(Cleaned(fs[f].content))]_vars

\* a read of Grain.bsmx after update_ingredient has rewritten it within the
\* second of its former timestamp
C3_Witness ==
    /\ ret.op = "read" /\ ret.file = "Grain.bsmx" /\ ret.parsed
    /\ fs["Grain.bsmx"].content # Catalogs["Grain.bsmx"].content
    /\ fs["Grain.bsmx"].mtime = Catalogs["Grain.bsmx"].mtime
    /\ ret.tree.doc = RecoverParse(Cleaned(fs["Grain.bsmx"].content))

\* C8 as stated: a mutation operation given a name that matches no entity
\* (update_ingredient, create_recipe) fails before any file is touched: no
\* file of the data directory, the backup location included, is created or
\* modified by the failed call.
C8_AsStated ==
    [][((IsOp("update_ingredient") /\ ~ret'.ok /\ ret'.err = "ValueError")
        \/ (IsOp("create_recipe") /\ ~ret'.ok
            /\ ret'.err \in {"Style not found", "Equipment not found",
                             "Yeast not found", "Grain not found", "Hop not found"}))
        => UNCHANGED <<fs, backups, dirs, exports>>]_vars

----------------------------------------------------------------------------
(***************************************************************************)
(* SpecPatch: add_recipe_to_beersmith on recipe files with and without the *)
(* document-level anchor, with and without an "MCP Created" folder, with   *)
(* and without another folder before it.                                   *)
(***************************************************************************)
RecipeFiles ==
    {RecipeFile(folders, txlog) :
        folders \in {<<>>, <<Folder(Pa)>>, <<Folder(folder_name)>>,
                     <<Folder(Pa), Folder(folder_name)>>},
        txlog \in {<<"0">>, <<"1">>}}

InitPatch ==
    /\ InitParser
    /\ \E content \in RecipeFiles :
            fs = [Catalogs EXCEPT !["Recipe.bsmx"] = File(content)]

NextPatch ==
    \/ Tick
    \/ Read("Recipe.bsmx")
    \/ \E recipe \in RecipeInputs : AddRecipe(recipe)

SpecPatch == InitPatch /\ [][NextPatch]_vars

\* the lines that name an "MCP Created" folder
Wrappers(toks) == {i \in 1..Len(toks) : toks[i] = Fld("Name", folder_name)}

\* the folder's Table element and its Data child, w the line of its name
TableOf(toks, w) == Max({i \in 1..w : toks[i] = Open("Table")})
DataOf(toks, w) == Min({i \in w..Len(toks) : toks[i] = Open("Data")})

\* toks without the element at i
Without(toks, i) ==
    Slice(toks, 1, i - 1) \o Slice(toks, ElemEnd(toks, i) + 1, Len(toks))

\* the recipes inside the folder named at line w
RecipesIn(toks, w) ==
    {i \in TableOf(toks, w)..ElemEnd(toks, TableOf(toks, w)) : toks[i] = Open("Recipe")}

\* the file has the anchor: a line <TxLog>1</TxLog>
HasAnchor(toks) == \E i \in 1..Len(toks) : toks[i] = Fld("TxLog", <<"1">>)

\* the step is a successful add_recipe_to_beersmith
Added == IsOp("add_recipe_to_beersmith") /\ ret'.ok /\ fs' # fs

\* the last child of the Data element of the folder named at line w is a
\* recipe, and the file without it is old
LastInFolder(toks, w, old) ==
    LET ch == Children(toks, DataOf(toks, w))
    IN  /\ ch # <<>>
        /\ toks[ch[Len(ch)]] = Open("Recipe")
        /\ Without(toks, ch[Len(ch)]) = old

\* C4 as stated: when a folder named "MCP Created" exists, the new fragment
\* is spliced immediately before the close of that folder's own Data
\* element: it becomes the last direct child of that element, also when the
\* folder holds recipes with Data elements of their own and when other
\* folders precede it.
C4_AsStated ==
    [][(Added /\ Wrappers(fs["Recipe.bsmx"].content) # {})
        => \A w \in Wrappers(fs'["Recipe.bsmx"].content) :
                LastInFolder(fs'["Recipe.bsmx"].content, w,
                             fs["Recipe.bsmx"].content)]_vars

\* C5: from a file with the anchor and no "MCP Created" folder, the first
\* successful add_recipe_to_beersmith creates one folder that holds exactly
\* the one fragment, and every later one puts its fragment into that folder:
\* after any number n >= 1 of them the file has exactly one such folder.
C5_OneWrapper ==
    [][Added =>
        /\ (Wrappers(fs["Recipe.bsmx"].content) = {}
            /\ HasAnchor(fs["Recipe.bsmx"].content))
                => /\ Cardinality(Wrappers(fs'["Recipe.bsmx"].content)) = 1
                   /\ \A w \in Wrappers(fs'["Recipe.bsmx"].content) :
                        /\ Cardinality(RecipesIn(fs'["Recipe.bsmx"].content, w)) = 1
                        /\ Without(fs'["Recipe.bsmx"].content,
                                   TableOf(fs'["Recipe.bsmx"].content, w))
                                = fs["Recipe.bsmx"].content
        /\ Cardinality(Wrappers(fs["Recipe.bsmx"].content)) = 1
                => /\ Cardinality(Wrappers(fs'["Recipe.bsmx"].content)) = 1
                   /\ \A v \in Wrappers(fs["Recipe.bsmx"].content) :
                      \A w \in Wrappers(fs'["Recipe.bsmx"].content) :
                        Cardinality(RecipesIn(fs'["Recipe.bsmx"].content, w))
                            = Cardinality(RecipesIn(fs["Recipe.bsmx"].content, v)) + 1
      ]_vars

\* the folder the first call created holds two recipes and is the only one
C5_Witness ==
    /\ ret.op = "add_recipe_to_beersmith" /\ ret.ok
    /\ HasAnchor(fs["Recipe.bsmx"].content)
    /\ Cardinality(Wrappers(fs["Recipe.bsmx"].content)) = 1
    /\ \A w \in Wrappers(fs["Recipe.bsmx"].content) :
        /\ fs["Recipe.bsmx"].content[TableOf(fs["Recipe.bsmx"].content, w) + 1]
                = Fld("_PERMID_", <<"9", "9", "9", "9">>)
        /\ Cardinality(RecipesIn(fs["Recipe.bsmx"].content, w)) = 2

\* C6: when add_recipe_to_beersmith finds neither an "MCP Created" folder
\* nor the anchor it raises an error and writes nothing: Recipe.bsmx and the
\* cache are after the call what they were before it.
C6_NoAnchorNoWrite ==
    [][(/\ IsOp("add_recipe_to_beersmith")
        /\ fs["Recipe.bsmx"].exists
        /\ Wrappers(fs["Recipe.bsmx"].content) = {}
        /\ ~HasAnchor(fs["Recipe.bsmx"].content))
        => /\ ~ret'.ok /\ ret'.err = "ValueError"
           /\ fs'["Recipe.bsmx"] = fs["Recipe.bsmx"]
           /\ cache' = cache]_vars

\* the call has failed on a file without folder and anchor that a read had
\* put into the cache
C6_Witness ==
    /\ ret.op = "add_recipe_to_beersmith" /\ ~ret.ok /\ ret.err = "ValueError"
    /\ Wrappers(fs["Recipe.bsmx"].content) = {}
    /\ ~HasAnchor(fs["Recipe.bsmx"].content)
    /\ cache["Recipe.bsmx"] # NoEntry

----------------------------------------------------------------------------
(***************************************************************************)
(* SpecUpdate: update_ingredient on grain catalogs: the entity that is     *)
(* named once, twice with the same lines, twice with other notes, and with *)
(* its notes line twice.                                                   *)
(***************************************************************************)
GrainFiles ==
    {Table("Grain", <<Grain(Pb, <<>>), Grain(Pa, <<>>)>>),
     Table("Grain", <<Grain(Pb, <<>>), Grain(Pa, <<>>), Grain(Pa, <<>>)>>),
     Table("Grain", <<Grain(Pb, <<>>), Grain(Pa, Pb), Grain(Pa, <<>>)>>),
     Table("Grain", <<Grain(Pb, <<>>),
                      <<Open("Grain"), Fld("F_G_NAME", Pa), Fld("F_G_NOTES", <<>>),
                        Fld("F_G_NOTES", Pb), Close("Grain")>>>>)}

InitUpdate ==
    /\ InitParser
    /\ \E content \in GrainFiles :
            fs = [Catalogs EXCEPT !["Grain.bsmx"] = File(content)]

NextUpdate ==
    \/ Tick
    \/ Read("Grain.bsmx")
    \/ \E name \in {PA, Zz}, updates \in UpdateInputs :
            UpdateIngredient("grain", name, updates)

SpecUpdate == InitUpdate /\ [][NextUpdate]_vars

\* i..j is the span of one entity of the file: from <Grain> to the nearest
\* </Grain>
IsSpan(toks, i, j) ==
    /\ i < j
    /\ toks[i] = Open("Grain")
    /\ toks[j] = Close("Grain")
    /\ \A m \in (i + 1)..(j - 1) : toks[m] # Close("Grain")

\* line k is the first line of its tag in the span that starts at i
FirstOfTag(toks, i, k) ==
    /\ toks[k].k = "field"
    /\ \A m \in i..(k - 1) : ~(toks[m].k = "field" /\ toks[m].tag = toks[k].tag)

\* new is old after the updates: inside the span i..j the first line of
\* the tag of each updated field carries the new value, and no other line
\* of the file differs
OnlyFirstInSpan(old, new, i, j, updates) ==
    /\ Len(new) = Len(old)
    /\ \A k \in 1..Len(old) :
        IF /\ k \in i..j
           /\ FirstOfTag(old, i, k)
           /\ \E n \in 1..Len(updates) : Alias("grain", updates[n].field) = old[k].tag
        THEN \E n \in 1..Len(updates) :
                /\ Alias("grain", updates[n].field) = old[k].tag
                /\ new[k] = Fld(old[k].tag, Coerce(updates[n].value))
        ELSE new[k] = old[k]

\* C7 as stated: a field update on a located entity replaces, for each
\* field of the update mapping, only the first occurrence of that field's
\* tag inside the entity's text with the coerced new value, and leaves every
\* other byte of the entity and of the rest of the file unchanged.
C7_AsStated ==
    [][(IsOp("update_ingredient") /\ ret'.ok)
        => \E updates \in UpdateInputs :
           \E i, j \in 1..Len(fs["Grain.bsmx"].content) :
                /\ IsSpan(fs["Grain.bsmx"].content, i, j)
                /\ OnlyFirstInSpan(fs["Grain.bsmx"].content,
                                   fs'["Grain.bsmx"].content, i, j, updates)]_vars

----------------------------------------------------------------------------
(***************************************************************************)
(* SpecEquip: get_equipment_profiles on equipment files: the table alone,  *)
(* the table followed by a further top-level <Equipment> record, and two   *)
(* top-level records without a table.                                      *)
(***************************************************************************)
EquipmentRecord(name) == Item("Equipment", "F_E_NAME", name, "F_E_NOTES", <<>>)

EquipmentTable(names) ==
    Table("Equipment", [n \in 1..Len(names) |-> EquipmentRecord(names[n])])

EquipmentFiles ==
    {EquipmentTable(<<Ba>>), EquipmentTable(<<Ba, Ab>>)}
    \cup {EquipmentTable(<<Ba>>) \o EquipmentRecord(name) : name \in {Ab, Ba, BA}}
    \cup {EquipmentRecord(Ba) \o EquipmentRecord(name) : name \in {Ab, Ba, BA}}

InitEquip ==
    /\ InitParser
    /\ \E content \in EquipmentFiles :
            fs = [Catalogs EXCEPT !["Equipment.bsmx"] = File(content)]

\* before is the cache entry the call starts from
Listing(r) ==
    /\ cache' = r.cache
    /\ ret' = [before |-> cache["Equipment.bsmx"]]
              @@ [Ret("get_equipment_profiles") EXCEPT
                    !.file = "Equipment.bsmx", !.items = r.items]

GetEquipmentProfiles ==
    /\ Listing(get_equipment_profiles(cache))
    /\ UNCHANGED <<fs, backups, exports, dirs, now, candidates>>

NextEquip ==
    \/ Tick
    \/ Touch("Equipment.bsmx")
    \/ Read("Equipment.bsmx")
    \/ GetEquipmentProfiles

SpecEquip == InitEquip /\ [][NextEquip]_vars

\* the records of the Data sections of the file
Primary == _parse_items(RecoverParse(Cleaned(fs["Equipment.bsmx"].content)),
                        "Equipment", "equipment")

InSeq(x, seq) == \E n \in 1..Len(seq) : seq[n] = x

\* C9 as stated: the recovery pass appends a recovered record only if no
\* record of the result has its name compared without regard to case: no
\* recovered record differs from another record of the result only in the
\* case of the letters of its name; and a listing repeated on the unchanged
\* file yields the same records.
C9_AsStated ==
    [][IsOp("get_equipment_profiles") =>
        /\ \A i, j \in 1..Len(ret'.items) :
            (i # j /\ ~InSeq(ret'.items[i], Primary))
                => Lower(ret'.items[i].name) # Lower(ret'.items[j].name)
        /\ ret.op = "get_equipment_profiles" => ret'.items = ret.items]_vars

\* C10 as stated: for a file of two top-level <Equipment> records the
\* listing has two records, one per fragment, when the names differ, and
\* exactly one record when the names are equal.
C10_AsStated ==
    [][IsOp("get_equipment_profiles") =>
        \A a, b \in {Ab, Ba, BA} :
            fs["Equipment.bsmx"].content = EquipmentRecord(a) \o EquipmentRecord(b)
                => IF a # b
                   THEN /\ Len(ret'.items) = 2
                        /\ {ret'.items[n].name : n \in 1..2} = {a, b}
                   ELSE /\ Len(ret'.items) = 1
                        /\ ret'.items[1].name = a]_vars

----------------------------------------------------------------------------
(***************************************************************************)
(* Reading recipes: _parse_recipe_element, _find_recipes_recursive,        *)
(* get_recipes and get_recipe.  A parsed recipe is a record [id, name,     *)
(* folder, notes, style, equipment, mash, steps, grains, hops, yeasts,     *)
(* miscs, waters]: style, equipment and mash are an entity or absent, the  *)
(* others are sequences of entities.                                       *)
(***************************************************************************)
\* the id of a recipe as text
IdOf(rec) ==
    IF "_permid_" \notin DOMAIN rec THEN <<>>
    ELSE IF rec["_permid_"].t = "int"
         THEN (IF rec["_permid_"].n < 0 THEN <<"-">> \o Decimal(0 - rec["_permid_"].n)
               ELSE Decimal(rec["_permid_"].n))
    ELSE rec["_permid_"].s

\* elem.find(tag) when elem is not None, else None
Under(d, i, tag) == IF i = 0 THEN 0 ELSE Find(d, i, tag)

\* elem.findall(tag) when elem is not None, else nothing
AllUnder(d, i, tag) == IF i = 0 THEN <<>> ELSE FindAll(d, i, tag)

One(i) == IF i = 0 THEN <<>> ELSE <<i>>

\* the embedded sub-elements of the recipe element at i, by field
Parts(d, i, data) ==
    [style |-> One(Find(d, i, "F_R_STYLE")),
     equipment |-> One(Find(d, i, "F_R_EQUIPMENT")),
     mash |-> One(Find(d, i, "F_R_MASH")),
     steps |-> AllUnder(d, Under(d, Under(d, Find(d, i, "F_R_MASH"), "steps"), "Data"),
                        "MashStep"),
     grains |-> AllUnder(d, data, "Grain"),
     hops |-> AllUnder(d, data, "Hops"),
     yeasts |-> AllUnder(d, data, "Yeast"),
     miscs |-> AllUnder(d, data, "Misc"),
     waters |-> AllUnder(d, data, "Water")]

\* the schema each field of a recipe is validated against
PartKind(field) ==
    CASE field = "style" -> "style"
      [] field = "equipment" -> "equipment"
      [] field = "mash" -> "mash"
      [] field = "steps" -> "mashstep"
      [] field = "grains" -> "grain"
      [] field = "hops" -> "hop"
      [] field = "yeasts" -> "yeast"
      [] field = "miscs" -> "misc"
      [] field = "waters" -> "water"

PartFields == {"style", "equipment", "mash", "steps", "grains", "hops", "yeasts",
               "miscs", "waters"}

\* model_validate on each of the elements
EntitiesOf(d, elems, kind) ==
    [n \in 1..Len(elems) |-> Entity(kind, _element_to_dict(d, elems[n]))]

\* no model_validate of the body raises
PartsValid(d, parts) ==
    \A field \in PartFields : \A n \in 1..Len(parts[field]) :
        Validates(PartKind(field), _element_to_dict(d, parts[field][n]))

\* the body of the try: any exception makes the result None
RecipeOf(d, recipe_dict, parts) ==
    IF ~Validates("recipe", recipe_dict) \/ ~PartsValid(d, parts) THEN <<>>
    ELSE <<[id |-> IdOf(recipe_dict),
            name |-> recipe_dict["f_r_name"].s,
            folder |-> TextOr(recipe_dict, "f_r_folder_name"),
            notes |-> TextOr(recipe_dict, "f_r_notes"),
            style |-> EntitiesOf(d, parts.style, "style"),
            equipment |-> EntitiesOf(d, parts.equipment, "equipment"),
            mash |-> EntitiesOf(d, parts.mash, "mash"),
            steps |-> EntitiesOf(d, parts.steps, "mashstep"),
            grains |-> EntitiesOf(d, parts.grains, "grain"),
            hops |-> EntitiesOf(d, parts.hops, "hop"),
            yeasts |-> EntitiesOf(d, parts.yeasts, "yeast"),
            miscs |-> EntitiesOf(d, parts.miscs, "misc"),
            waters |-> EntitiesOf(d, parts.waters, "water")]>>

\* a sequence of length 0 (None) or 1
_parse_recipe_element(d, i) ==
    RecipeOf(d, _element_to_dict(d, i),
             Parts(d, i, Under(d, Find(d, i, "Ingredients"), "Data")))

\* table.findtext("Name", "")
FindText(d, i, tag) == IF Find(d, i, tag) = 0 THEN <<>> ELSE Text(d, Find(d, i, tag))

\* if not recipe.folder or recipe.folder == "/": recipe.folder = folder_path
\* the recipe in the folder of the walk, whatever folder it declares
Placed_inherited(recipe, folder_path) ==
    IF recipe = <<>> THEN <<>> ELSE <<[recipe[1] EXCEPT !.folder = folder_path]>>

Placed(recipe, folder_path) ==
    IF recipe = <<>> THEN <<>>
    ELSE IF recipe[1].folder \in {<<>>, <<"/">>}
         THEN <<[recipe[1] EXCEPT !.folder = folder_path]>>
    ELSE recipe

Slash == <<"/">>

\* the four loops of _find_recipes_recursive over the children of the
\* element at i; Each walks the elements of one loop
RECURSIVE _find_recipes_recursive(_, _, _)
RECURSIVE Each(_, _, _, _)
Each(d, elems, loop, folder_path) ==
    IF elems = <<>> THEN <<>>
    ELSE (CASE loop = "Table" ->
                 IF Find(d, Head(elems), "Data") = 0 THEN <<>>
                 ELSE _find_recipes_recursive(d, Find(d, Head(elems), "Data"),
                        folder_path \o FindText(d, Head(elems), "Name") \o Slash)
            [] loop = "Recipe" ->
                 Placed(_parse_recipe_element(d, Head(elems)), folder_path)
            [] loop = "Cloud" ->
                 IF Find(d, Head(elems), "F_C_RECIPE") = 0 THEN <<>>
                 ELSE Placed(_parse_recipe_element(d, Find(d, Head(elems), "F_C_RECIPE")),
                             folder_path)
            [] loop = "Data" ->
                 _find_recipes_recursive(d, Head(elems), folder_path))
         \o Each(d, Tail(elems), loop, folder_path)

_find_recipes_recursive(d, element, folder_path) ==
    Each(d, FindAll(d, element, "Table"), "Table", folder_path)
    \o Each(d, FindAll(d, element, "Recipe"), "Recipe", folder_path)
    \o Each(d, FindAll(d, element, "Cloud"), "Cloud", folder_path)
    \o Each(d, FindAll(d, element, "Data"), "Data", folder_path)

\* the recipes of one file: none when the file gives no tree
RecipesOf(root, folder_path) ==
    IF root = NoTree THEN <<>> ELSE _find_recipes_recursive(root.doc, 1, folder_path)

CloudPath == <<"/", "C", "l", "o", "u", "d", "/">>

\* local is what _parse_xml_file returned for Recipe.bsmx, cloud what it
\* returned for Cloud.bsmx
BothOf(local, cloud) ==
    [recipes |-> RecipesOf(local.root, Slash) \o RecipesOf(cloud.root, CloudPath),
     cache |-> cloud.cache]

LoadCloud(local) == BothOf(local, _parse_xml_file(local.cache, "Cloud.bsmx"))

\* the recipes of local and cloud storage, in the order of the walk
LoadRecipes(c) == LoadCloud(_parse_xml_file(c, "Recipe.bsmx"))

\* the summary of a recipe
RecipeSummary(r) ==
    [id |-> r.id, name |-> r.name,
     style |-> IF r.style = <<>> THEN <<>> ELSE r.style[1].name,
     folder |-> r.folder]

\* key=(folder, name)
ByFolderName(a, b) ==
    StrLess(a.folder, b.folder) \/ (a.folder = b.folder /\ StrLess(a.name, b.name))

RECURSIVE InsertSummary(_, _)
InsertSummary(sorted, x) ==
    IF sorted = <<>> THEN <<x>>
    ELSE IF ByFolderName(x, Head(sorted)) THEN <<x>> \o sorted
    ELSE <<Head(sorted)>> \o InsertSummary(Tail(sorted), x)

RECURSIVE SortedSummaries(_)
SortedSummaries(items) ==
    IF items = <<>> THEN <<>>
    ELSE InsertSummary(SortedSummaries(SubSeq(items, 1, Len(items) - 1)),
                       items[Len(items)])

\* the two filters of get_recipes and the summaries, sorted
Summaries(recipes, folder, search) ==
    LET InFolder(r) == folder = <<>> \/ Contains(Lower(r.folder), Lower(folder))
        Hit(r) == search = <<>> \/ Contains(Lower(r.name), Lower(search))
        Both(r) == InFolder(r) /\ Hit(r)
        kept == SelectSeq(recipes, Both)
    IN  SortedSummaries([n \in 1..Len(kept) |-> RecipeSummary(kept[n])])

Summarised(loaded, folder, search) ==
    [items |-> Summaries(loaded.recipes, folder, search), cache |-> loaded.cache]

get_recipes(c, folder, search) == Summarised(LoadRecipes(c), folder, search)

\* the three loops of get_recipe: by id, by name, by part of the name
FirstRecipe(by_id, by_name, partial) ==
    IF by_id # <<>> THEN <<by_id[1]>>
    ELSE IF by_name # <<>> THEN <<by_name[1]>>
    ELSE IF partial # <<>> THEN <<partial[1]>>
    ELSE <<>>

PickedRecipe(loaded, name_or_id) ==
    LET ById(r) == r.id = name_or_id
        Named(r) == Lower(r.name) = Lower(name_or_id)
        Partial(r) == Contains(Lower(r.name), Lower(name_or_id))
    IN  [item |-> FirstRecipe(SelectSeq(loaded.recipes, ById),
                              SelectSeq(loaded.recipes, Named),
                              SelectSeq(loaded.recipes, Partial)),
         recipes |-> loaded.recipes,
         cache |-> loaded.cache]

get_recipe(c, name_or_id) == PickedRecipe(LoadRecipes(c), name_or_id)

----------------------------------------------------------------------------
(***************************************************************************)
(* SpecRecipes: the recipes of Recipe.bsmx and Cloud.bsmx are listed and   *)
(* looked up: recipes in nested folders, with and without a folder of      *)
(* their own, with embedded elements that validate and that do not.        *)
(***************************************************************************)
RecipeElem(id, name, folder, embedded) ==
    <<Open("Recipe"), Fld("_PERMID_", id), Fld("F_R_NAME", name),
      Fld("F_R_FOLDER_NAME", folder)>> \o embedded \o <<Close("Recipe")>>

\* a folder with its content
TableElem(name, content) ==
    <<Open("Table"), Fld("Name", name), Open("Data")>> \o content
    \o <<Close("Data"), Close("Table")>>

\* an embedded element with one field
Embedded(tag, field, text) == <<Open(tag), Fld(field, text), Close(tag)>>

\* the ingredients of a recipe: one grain with the given field
Ingredient(field, text) ==
    <<Open("Ingredients"), Open("Data")>> \o Embedded("Grain", field, text)
    \o <<Close("Data"), Close("Ingredients")>>

\* a mash profile with one step that has the given field
MashElem(field, text) ==
    <<Open("F_R_MASH"), Fld("F_MH_NAME", Ma), Open("steps"), Open("Data")>>
    \o Embedded("MashStep", field, text)
    \o <<Close("Data"), Close("steps"), Close("F_R_MASH")>>

One1 == <<"1">>

\* the contents of the main data section of Recipe.bsmx
RecipeDocs ==
    {\* folders in folders, a recipe with a folder of its own, one at the root
     <<TableElem(Ab, TableElem(Ba, RecipeElem(One1, Pa, <<>>, <<>>))
                     \o RecipeElem(<<"0">>, Ca, <<"/">> \o Ma \o <<"/">>, <<>>)),
       RecipeElem(<<"0">>, Pb, <<"/">>, <<>>)>>,
     \* a data section in a data section, a folder without a name
     <<<<Open("Data")>> \o RecipeElem(One1, Pa, <<>>, <<>>) \o <<Close("Data")>>,
       <<Open("Table"), Open("Data")>> \o RecipeElem(<<"0">>, Pb, <<>>, <<>>)
            \o <<Close("Data"), Close("Table")>>>>,
     \* embedded elements that validate
     <<RecipeElem(One1, Pa, <<>>,
                  Embedded("F_R_STYLE", "F_S_NAME", Ab)
                  \o Embedded("F_R_EQUIPMENT", "F_E_NAME", Ba)
                  \o MashElem("F_MS_NAME", Ma) \o Ingredient("F_G_NAME", Pb))>>,
     \* a style without a name, next to a recipe without embedded elements
     <<RecipeElem(One1, Pa, <<>>, Embedded("F_R_STYLE", "F_S_CATEGORY", Ab)),
       RecipeElem(<<"0">>, Pb, <<>>, <<>>)>>,
     \* a grain line without a name
     <<RecipeElem(One1, Pa, <<>>, Ingredient("F_G_NOTES", Pb))>>,
     \* a mash step without a name
     <<RecipeElem(One1, Pa, <<>>, MashElem("F_MS_TYPE", <<"0">>))>>,
     \* a recipe without a name, next to one with a name
     <<<<Open("Recipe"), Fld("_PERMID_", One1), Close("Recipe")>>,
       RecipeElem(<<"0">>, Pb, <<>>, <<>>)>>,
     \* a recipe whose id is the name of the next one
     <<RecipeElem(Pa, Ab, <<>>, <<>>), RecipeElem(One1, Pa, <<>>, <<>>)>>,
     \* a name that contains the name of the next recipe
     <<RecipeElem(<<"0">>, Pa \o Pb, <<>>, <<>>), RecipeElem(One1, Pa, <<>>, <<>>)>>}

\* Cloud.bsmx: absent, or one cloud recipe
CloudFile ==
    <<Open("Cloud"), Open("Data"), Open("Cloud"), Open("F_C_RECIPE"),
      Fld("F_R_NAME", Ca), Close("F_C_RECIPE"), Close("Cloud"), Close("Data"),
      Close("Cloud")>>

InitRecipes ==
    /\ InitParser
    /\ \E doc \in RecipeDocs, cloud \in {Missing, File(CloudFile)} :
            fs = [Catalogs EXCEPT !["Recipe.bsmx"] = File(RecipeFile(doc, One1)),
                                  !["Cloud.bsmx"] = cloud]

ListedRecipes(r, folder, search) ==
    /\ cache' = r.cache
    /\ ret' = [folder |-> folder, search |-> search]
              @@ [Ret("get_recipes") EXCEPT !.file = "Recipe.bsmx", !.items = r.items]

GetRecipes(folder, search) ==
    /\ ListedRecipes(get_recipes(cache, folder, search), folder, search)
    /\ UNCHANGED <<fs, backups, exports, dirs, now, candidates>>

FoundRecipe(r, name_or_id) ==
    /\ cache' = r.cache
    /\ ret' = [query |-> name_or_id, recipes |-> r.recipes]
              @@ [Ret("get_recipe") EXCEPT !.file = "Recipe.bsmx", !.items = r.item,
                                           !.ok = r.item # <<>>]

GetRecipe(name_or_id) ==
    /\ FoundRecipe(get_recipe(cache, name_or_id), name_or_id)
    /\ UNCHANGED <<fs, backups, exports, dirs, now, candidates>>

NextRecipes ==
    \/ Tick
    \/ Touch("Recipe.bsmx")
    \/ \E folder \in {<<>>, Ab}, search \in {<<>>, PA} : GetRecipes(folder, search)
    \/ \E name_or_id \in {PA, Zz, One1} : GetRecipe(name_or_id)

SpecRecipes == InitRecipes /\ [][NextRecipes]_vars

\* the element that holds the token at i, depth = Depths(d)
ParentAt(d, depth, i) ==
    OpenAt(d, depth, i - 1, IF d[i].k = "open" THEN depth[i] - 1 ELSE depth[i])

RecipeElemsAt(d, depth) ==
    {i \in 2..Len(d) :
        \/ d[i] = Open("Recipe") /\ d[ParentAt(d, depth, i)].tag = "Data"
        \/ d[i] = Open("F_C_RECIPE")}

\* the recipe elements of a document: the <Recipe> children of its data
\* sections, and the <F_C_RECIPE> elements of the cloud
RecipeElems(d) == RecipeElemsAt(d, Depths(d))

DocOf(f) == IF fs[f].exists THEN RecoverParse(Cleaned(fs[f].content)) ELSE <<>>

\* the recipe elements of f whose own fields validate as a Recipe
TopValidIn(d) == {i \in RecipeElems(d) : Validates("recipe", _element_to_dict(d, i))}

TopValid(f) == TopValidIn(DocOf(f))

\* C11 as stated: an embedded element of a recipe that fails validation
\* does not drop the recipe; only a recipe whose own fields fail the Recipe
\* validation is left out: the listing has one recipe for every recipe
\* element that validates as a Recipe.
C11_AsStated ==
    [][(IsOp("get_recipes") /\ ret'.folder = <<>> /\ ret'.search = <<>>)
        => Len(ret'.items) = Cardinality(TopValid("Recipe.bsmx"))
                             + Cardinality(TopValid("Cloud.bsmx"))]_vars

----------------------------------------------------------------------------
(***************************************************************************)
(* get_mash_profiles and get_mash_profile.                                 *)
(***************************************************************************)
\* the body of the try: the profile and its steps validate, or the
\* profile is skipped
MashOf(d, mash_dict, steps) ==
    IF /\ Validates("mash", mash_dict)
       /\ \A n \in 1..Len(steps) : Validates("mashstep", _element_to_dict(d, steps[n]))
    THEN <<Entity("mash", mash_dict)>>
    ELSE <<>>

RECURSIVE MashElems(_, _)
MashElems(d, elems) ==
    IF elems = <<>> THEN <<>>
    ELSE MashOf(d, _element_to_dict(d, Head(elems)),
                AllUnder(d, Under(d, Find(d, Head(elems), "steps"), "Data"), "MashStep"))
         \o MashElems(d, Tail(elems))

RECURSIVE MashDatas(_, _)
MashDatas(d, datas) ==
    IF datas = <<>> THEN <<>>
    ELSE MashElems(d, FindAll(d, Head(datas), "Mash")) \o MashDatas(d, Tail(datas))

\* r is what _parse_xml_file returned
MashProfiles(r) ==
    [items |-> IF r.root = NoTree THEN <<>>
               ELSE SortedBy(MashDatas(r.root.doc, Iter(r.root.doc, "Data")), "mash"),
     cache |-> r.cache]

get_mash_profiles(c) == MashProfiles(_parse_xml_file(c, "Mash.bsmx"))

get_mash_profile(c, name) == PickedEquipment(get_mash_profiles(c), name)

----------------------------------------------------------------------------
(***************************************************************************)
(* SpecCatalog: the catalogs are listed and entries looked up by name:     *)
(* catalogs with items that do not validate, with names that contain each  *)
(* other, with the query in a field other than the name.  The catalog of   *)
(* the data directory is the one that is listed and looked up.             *)
(***************************************************************************)
\* an item with three fields
Item3(tag, t1, v1, t2, v2, t3, v3) ==
    <<Open(tag), Fld(t1, v1), Fld(t2, v2), Fld(t3, v3), Close(tag)>>

Hop(name, origin) == Item("Hops", "F_H_NAME", name, "F_H_ORIGIN", origin)

YeastItem(name, lab, product_id) ==
    Item3("Yeast", "F_Y_NAME", name, "F_Y_LAB", lab, "F_Y_PRODUCT_ID", product_id)

\* a grain without a name, and one whose name reads as a number
NoName == Embedded("Grain", "F_G_NOTES", Pb)
IntName == Embedded("Grain", "F_G_NAME", One1)

PaPb == Pa \o Pb
MaPa == Ma \o Pa

\* the catalogs of one kind that the model starts from
CatalogFiles(kind) ==
    CASE kind = "grain" ->
            {Table("Grain", <<a, b, c>>) :
                a, b, c \in {Grain(Pa, <<>>), NoName, IntName}}
            \cup {Table("Grain", <<Grain(Pa, <<>>), NoName, Grain(Ab, Pa)>>)}
      [] kind = "hop" ->
            {Table("Hops", <<Hop(Ab, Pa), Hop(PaPb, <<>>)>>),
             Table("Hops", <<Hop(Ab, <<>>), Hop(Ca, <<>>)>>),
             Table("Hops", <<Hop(MaPa, <<>>), Hop(Pa, <<>>)>>),
             Table("Hops", <<>>)}
      [] kind = "yeast" ->
            {Table("Yeast", <<YeastItem(Ca, Ab, Pa), YeastItem(Pa, Ba, <<>>)>>),
             Table("Yeast", <<YeastItem(PaPb, Ab, <<>>), YeastItem(Pa, Ba, <<>>)>>)}
      [] kind = "style" ->
            {Table("Style", <<Item("Style", "F_S_NAME", Ab, "F_S_CATEGORY", Pa),
                              Item("Style", "F_S_NAME", PaPb, "F_S_CATEGORY", Pb)>>)}
      [] kind = "water" ->
            {Table("Water", <<Item("Water", "F_W_NAME", MaPa, "F_W_NOTES", <<>>),
                              Item("Water", "F_W_NAME", Pa, "F_W_NOTES", <<>>)>>)}
      [] kind = "equipment" ->
            {EquipmentTable(<<MaPa, Pa>>), EquipmentTable(<<MaPa, Ab>>)}
      [] kind = "mash" ->
            {Table("Mash", <<Embedded("Mash", "F_MH_NAME", MaPa),
                             Embedded("Mash", "F_MH_NAME", Pa)>>),
             Table("Mash", <<Embedded("Mash", "F_MH_NAME", MaPa),
                             Embedded("Mash", "F_MH_NOTES", Pa)>>)}
      [] kind = "recipe" ->
            {RecipeFile(<<RecipeElem(PA, Ab, <<>>, <<>>),
                          RecipeElem(One1, Pa, <<>>, <<>>)>>, One1),
             RecipeFile(<<RecipeElem(<<"0">>, PaPb, <<>>, <<>>),
                          RecipeElem(One1, Pa, <<>>, <<>>)>>, One1)}

LookupKinds ==
    {"grain", "hop", "yeast", "style", "water", "equipment", "mash", "recipe"}

\* a data directory that holds one catalog
InitCatalog ==
    /\ InitParser
    /\ \E kind \in LookupKinds :
       \E content \in CatalogFiles(kind) :
            fs = [f \in Files |-> IF f = KindFile(kind) THEN File(content) ELSE Missing]

ListedItems(r, kind, search) ==
    /\ cache' = r.cache
    /\ ret' = [kind |-> kind, search |-> search]
              @@ [Ret("get_items") EXCEPT !.file = KindFile(kind), !.items = r.items]

\* get_hops, get_grains, get_yeasts, get_styles, get_water_profiles
GetItems(kind, search) ==
    /\ fs[KindFile(kind)].exists
    /\ ListedItems(get_items(cache, kind, search), kind, search)
    /\ UNCHANGED <<fs, backups, exports, dirs, now, candidates>>

\* the lookup of each kind
Lookup(c, kind, name) ==
    CASE kind = "equipment" -> get_equipment(c, name)
      [] kind = "mash" -> get_mash_profile(c, name)
      [] kind = "recipe" -> get_recipe(c, name)
      [] OTHER -> get_item(c, kind, name)

LookedUp(r, kind, name) ==
    /\ cache' = r.cache
    /\ ret' = [kind |-> kind, query |-> name]
              @@ [Ret("get_item") EXCEPT !.file = KindFile(kind), !.items = r.item,
                                         !.ok = r.item # <<>>]

\* get_hop, get_grain, get_yeast, get_style, get_water_profile,
\* get_equipment, get_mash_profile, get_recipe
GetItem(kind, name) ==
    /\ fs[KindFile(kind)].exists
    /\ LookedUp(Lookup(cache, kind, name), kind, name)
    /\ UNCHANGED <<fs, backups, exports, dirs, now, candidates>>

NextCatalog ==
    \/ Tick
    \/ \E kind \in {"grain", "hop", "yeast", "style", "water"}, search \in {<<>>, PA} :
            GetItems(kind, search)
    \/ \E kind \in LookupKinds, name \in {PA, Zz, <<>>} : GetItem(kind, name)

SpecCatalog == InitCatalog /\ [][NextCatalog]_vars

\* the items of a catalog that validate: the elements with the item tag
\* that are children of a Data element
ValidItemsAt(d, depth, kind) ==
    {i \in 2..Len(d) :
        /\ d[i].k # "close"
        /\ d[i].tag = KindTag(kind)
        /\ d[ParentAt(d, depth, i)].tag = "Data"
        /\ Validates(kind, _element_to_dict(d, i))}

ValidItems(d, kind) == ValidItemsAt(d, Depths(d), kind)

\* every item of the set is in the listing, and the listing is no longer
EachListed(d, valid, kind, items) ==
    /\ Len(items) = Cardinality(valid)
    /\ \A i \in valid :
            \E n \in 1..Len(items) : items[n] = Entity(kind, _element_to_dict(d, i))

ValidListed(d, kind, items) == EachListed(d, ValidItems(d, kind), kind, items)

\* C12: an item that fails validation is left out and keeps no other item
\* out: the listing of a catalog has one record for each item element under
\* a Data element that validates, whatever items stand before or after it.
\* (ret is the result of the last call; no step of SpecCatalog changes a
\* file.)
C12_EveryValidItem ==
    (ret.op = "get_items" /\ ret.search = <<>>)
        => ValidListed(DocOf(ret.file), ret.kind, ret.items)

\* a grain that validates between two that do not has been listed
C12_Witness ==
    /\ ret.op = "get_items"
    /\ ret.kind = "grain"
    /\ ret.search = <<>>
    /\ fs["Grain.bsmx"].content = Table("Grain", <<NoName, Grain(Pa, <<>>), IntName>>)
    /\ Len(ret.items) = 1
    /\ ret.items[1].name = Pa

----------------------------------------------------------------------------
(***************************************************************************)
(* The lookups by name against the whole catalog.                          *)
(***************************************************************************)
EmptyCache == [f \in Files |-> NoEntry]

\* the whole catalog of a kind, in the order its query returns it
Catalog(kind) ==
    CASE kind = "equipment" -> get_equipment_profiles(EmptyCache).items
      [] kind = "mash" -> get_mash_profiles(EmptyCache).items
      [] OTHER -> get_items(EmptyCache, kind, <<>>).items

NameIs(e, query) == Lower(e.name) = Lower(query)
NameHas(e, query) == Contains(Lower(e.name), Lower(query))

\* the lookup as stated: the exact name, else the first name that contains
\* the query, else the first entry of the catalog
StatedLookup(all, query, found) ==
    LET Exact(e) == NameIs(e, query)
        Partial(e) == NameHas(e, query)
    IN  IF SelectSeq(all, Exact) # <<>>
        THEN found # <<>> /\ NameIs(found[1], query)
        ELSE IF SelectSeq(all, Partial) # <<>>
        THEN found = <<SelectSeq(all, Partial)[1]>>
        ELSE IF all # <<>> THEN found = <<all[1]>>
        ELSE found = <<>>

\* C13 as stated: a lookup returns an entry whose name equals the query
\* ignoring case; else the first entry whose name contains it; else the
\* first entry of the unfiltered catalog; nothing only when the catalog is
\* empty.
C13_AsStated ==
    (ret.op = "get_item" /\ ret.kind # "recipe")
        => StatedLookup(Catalog(ret.kind), ret.query, ret.items)

\* the query equals the name, or the product id of a yeast
IsExact(kind, e, query) ==
    NameIs(e, query) \/ (kind = "yeast" /\ Lower(e.pid) = Lower(query))

\* the query is in a searchable field: the name; the origin of a grain or
\* hop; the lab and the product id of a yeast; the category of a style
HasQuery(kind, e, query) ==
    \/ NameHas(e, query)
    \/ kind \in {"grain", "hop", "yeast", "style"} /\ Contains(Lower(e.aux), Lower(query))
    \/ kind = "yeast" /\ Contains(Lower(e.pid), Lower(query))

\* the first exact match of the catalog, else the first entry with the
\* query in a searchable field, else nothing
OrderedLookup(all, kind, query) ==
    LET Exact(e) == IsExact(kind, e, query)
        Partial(e) == HasQuery(kind, e, query)
    IN  IF SelectSeq(all, Exact) # <<>> THEN <<SelectSeq(all, Exact)[1]>>
        ELSE IF SelectSeq(all, Partial) # <<>> THEN <<SelectSeq(all, Partial)[1]>>
        ELSE <<>>

\* C13: a lookup by name returns the first entry of the sorted catalog
\* whose name (or product id, for a yeast) equals the query ignoring case;
\* else the first entry with the query in one of its searchable fields;
\* and nothing when no entry has it: there is no fall back to the
\* unfiltered catalog.
C13_LookupOrder ==
    (ret.op = "get_item" /\ ret.kind # "recipe")
        => ret.items = OrderedLookup(Catalog(ret.kind), ret.kind, ret.query)

\* the hop Ab of origin Pa was returned for the query PA although the
\* name of the hop PaPb contains it
C13_Witness ==
    /\ ret.op = "get_item"
    /\ ret.kind = "hop"
    /\ ret.query = PA
    /\ fs["Hops.bsmx"].content = Table("Hops", <<Hop(Ab, Pa), Hop(PaPb, <<>>)>>)
    /\ ret.items # <<>>
    /\ ret.items[1].name = Ab

\* the entries a lookup chooses from: the catalog, or the recipes of local
\* and cloud storage
Entries(kind) ==
    IF kind = "recipe" THEN LoadRecipes(EmptyCache).recipes ELSE Catalog(kind)

\* when an entry has the name, the entry found has it too
NameFirst(all, query, found) ==
    (\E n \in 1..Len(all) : NameIs(all[n], query))
        => found # <<>> /\ NameIs(found[1], query)

\* C14 as stated: whenever an entry's name equals the query ignoring case,
\* the lookup returns an entry with that name.
C14_AsStated ==
    ret.op = "get_item" => NameFirst(Entries(ret.kind), ret.query, ret.items)

\* when an entry has the name, the entry found matches exactly: by name,
\* by the product id of a yeast, by the id of a recipe
ExactFirst(all, kind, query, found) ==
    (\E n \in 1..Len(all) : NameIs(all[n], query))
        => /\ found # <<>>
           /\ \/ NameIs(found[1], query)
              \/ kind = "yeast" /\ Lower(found[1].pid) = Lower(query)
              \/ kind = "recipe" /\ found[1].id = query

\* C14: an exact match takes priority over any substring match: whenever
\* an entry's name equals the query ignoring case, the lookup returns an
\* entry that matches the query exactly (its name equals the query
\* ignoring case, or it is a yeast whose product id does, or a recipe whose
\* id is the query), whatever entries contain the query and whatever
\* their order.
C14_ExactFirst ==
    ret.op = "get_item"
        => ExactFirst(Entries(ret.kind), ret.kind, ret.query, ret.items)

\* the hop Pa was returned for the query PA although MaPa sorts first
C14_Witness ==
    /\ ret.op = "get_item"
    /\ ret.kind = "hop"
    /\ ret.query = PA
    /\ fs["Hops.bsmx"].content = Table("Hops", <<Hop(MaPa, <<>>), Hop(Pa, <<>>)>>)
    /\ Catalog("hop")[1].name = MaPa
    /\ ret.items # <<>>
    /\ ret.items[1].name = Pa

----------------------------------------------------------------------------
(***************************************************************************)
(* The folder of a recipe, from the elements that enclose it.              *)
(***************************************************************************)
\* the <Table> elements that enclose the element at i, outermost first
TablesAround(d, depth, i) ==
    LET Encloses(j) == /\ d[j] = Open("Table")
                       /\ \A k \in j..(i - 1) : depth[k] >= depth[j]
    IN  Indices(1, i - 1, Encloses)

\* the names of the tables, each followed by "/"
RECURSIVE NamesOf(_, _)
NamesOf(d, tables) ==
    IF tables = <<>> THEN <<>>
    ELSE FindText(d, Head(tables), "Name") \o Slash \o NamesOf(d, Tail(tables))

\* the folder of the recipe parsed from the element at i
FolderOf(d, depth, i, declared, initial) ==
    IF declared # <<>> /\ declared # Slash THEN declared
    ELSE initial \o NamesOf(d, TablesAround(d, depth, i))

\* the name and folder of every recipe element of d that parses
FoldersAt(d, depth, initial) ==
    {[name |-> _parse_recipe_element(d, i)[1].name,
      folder |-> FolderOf(d, depth, i, _parse_recipe_element(d, i)[1].folder, initial)] :
        i \in {j \in RecipeElemsAt(d, depth) : _parse_recipe_element(d, j) # <<>>}}

FoldersIn(d, initial) == IF d = <<>> THEN {} ELSE FoldersAt(d, Depths(d), initial)

\* the listing holds the recipes of expected, each in its folder
InFolders(items, expected) ==
    /\ Len(items) = Cardinality(expected)
    /\ {[name |-> items[n].name, folder |-> items[n].folder] : n \in 1..Len(items)}
            = expected

\* C15: every recipe of the walk is in the folder it declares when that is
\* neither empty nor "/", and otherwise in the initial path followed by
\* the names of the Table elements that enclose it, outermost first, each
\* followed by "/"; a Data element adds nothing to the path.
C15_FolderPath ==
    (ret.op = "get_recipes" /\ ret.folder = <<>> /\ ret.search = <<>>)
        => InFolders(ret.items,
                     FoldersIn(DocOf("Recipe.bsmx"), Slash)
                     \cup FoldersIn(DocOf("Cloud.bsmx"), CloudPath))

\* the recipe Pa of folder Ba in folder Ab, the recipe Ca that declares
\* the folder Ma, and the recipe Pb at the root have been listed
C15_Witness ==
    /\ ret.op = "get_recipes"
    /\ ret.folder = <<>>
    /\ ret.search = <<>>
    /\ \E n \in 1..Len(ret.items) :
            /\ ret.items[n].name = Pa
            /\ ret.items[n].folder = Slash \o Ab \o Slash \o Ba \o Slash
    /\ \E n \in 1..Len(ret.items) :
            ret.items[n].name = Ca /\ ret.items[n].folder = Slash \o Ma \o Slash
    /\ \E n \in 1..Len(ret.items) :
            ret.items[n].name = Pb /\ ret.items[n].folder = Slash

----------------------------------------------------------------------------
(***************************************************************************)
(* SpecConvert: _convert_value on the texts of a small alphabet, up to     *)
(* MaxText characters, and on some longer numerals and words.              *)
(***************************************************************************)
ConvertChars == {"1", ".", "e", "-", " ", "_", "n", "a"}

LongTexts ==
    {<<"i", "n", "f">>, <<"I", "n", "f", "i", "n", "i", "t", "y">>,
     <<"-", "i", "n", "f">>, <<"1", "e", "-", "1">>, <<"1", ".", "1", "E", "1">>,
     <<" ", "1", "_", "0", " ">>, <<"1", ".", "1", ".", "1">>, <<"I", "B", "U">>,
     <<"P", "a", "1">>}

ConvertTexts ==
    UNION {[1..n -> ConvertChars] : n \in 0..MaxText} \cup LongTexts

InitConvert ==
    /\ fs = Catalogs
    /\ cache = EmptyCache
    /\ backups = {}
    /\ exports = {}
    /\ dirs = {}
    /\ now = 0
    /\ candidates = None
    /\ \E text \in ConvertTexts :
            ret = [text |-> text, value |-> None] @@ Ret("text")

\* result[tag] = self._convert_value(text)
ConvertValue ==
    /\ ret.op = "text"
    /\ ret' = [text |-> ret.text, value |-> _convert_value(ret.text)]
               @@ Ret("_convert_value")
    /\ UNCHANGED <<fs, cache, backups, exports, dirs, now, candidates>>

NextConvert == ConvertValue

SpecConvert == InitConvert /\ [][NextConvert]_vars

NoDot(text) == \A i \in 1..Len(text) : text[i] # "."

\* the rules in their order
OrderedRules(text, value) ==
    IF text = <<>> THEN value = StrV(<<>>)
    ELSE IF NoDot(text) /\ IsInt(text)
         THEN value.t = "int" /\ value.n = IntOf(text)
    ELSE IF IsFloat(text)
         THEN value.t = "float" /\ value.s = Strip(text)
    ELSE value = StrV(text)

\* C16: _convert_value returns "" for the empty text; else the integer
\* when the text has no "." and int() accepts it; else the float when
\* float() accepts it; else the text itself.
C16_OrderedRules ==
    ret.op = "_convert_value" => OrderedRules(ret.text, ret.value)

\* a text without "." that is no integer has been read as a float
C16_Witness ==
    /\ ret.op = "_convert_value"
    /\ ret.text = <<"1", "e", "1">>
    /\ ret.value.t = "float"

Letters ==
    {"a", "b", "c", "e", "f", "i", "m", "n", "p", "t", "y", "A", "B", "C", "E",
     "F", "I", "M", "N", "P", "T", "U", "Y"}

HasLetter(text) == \E i \in 1..Len(text) : text[i] \in Letters

\* C17 as stated: a text that contains a letter is returned unchanged, as
\* a string.
C17_AsStated ==
    (ret.op = "_convert_value" /\ HasLetter(ret.text)) => ret.value = StrV(ret.text)

----------------------------------------------------------------------------
(***************************************************************************)
(* SpecRoundTrip: a value is written into the notes of a grain with        *)
(* _update_xml_fields and the grain is read back with _element_to_dict.    *)
(* The values are the texts of a small alphabet up to MaxText characters,  *)
(* the text "&amp;", the two booleans and some floats; no text holds a     *)
(* backslash, which re.sub would read as an escape of its template.        *)
(***************************************************************************)
ValueChars == {"a", "1", "&", " ", "."}

ValueTexts == UNION {[1..n -> ValueChars] : n \in 0..MaxText} \cup {Amp}

FieldValues ==
    {StrV(t) : t \in ValueTexts}
    \cup {BoolV(TRUE), BoolV(FALSE)}
    \cup {FloatV(<<"1", ".", "1">>), FloatV(<<"-", "0", ".", "0", "1">>),
          FloatV(<<"1", "0", ".", "0">>)}

InitRoundTrip ==
    /\ fs = Catalogs
    /\ cache = EmptyCache
    /\ backups = {}
    /\ exports = {}
    /\ dirs = {}
    /\ now = 0
    /\ candidates = None
    /\ \E value \in FieldValues :
            ret = [value |-> value, back |-> None] @@ Ret("value")

\* the record read from the span after the update
ReadBack(span, updates, kind) ==
    _element_to_dict(RecoverParse(_update_xml_fields(span, updates, kind)), 1)

FieldRoundTrip ==
    /\ ret.op = "value"
    /\ ret' = [value |-> ret.value,
               back |-> ReadBack(Grain(Pa, Pb), <<Update("notes", ret.value)>>,
                                 "grain")["f_g_notes"]]
              @@ Ret("round_trip")
    /\ UNCHANGED <<fs, cache, backups, exports, dirs, now, candidates>>

NextRoundTrip == FieldRoundTrip

SpecRoundTrip == InitRoundTrip /\ [][NextRoundTrip]_vars

\* the value read back equals the value written: the same string, the
\* boolean as 1 or 0, the float with seven decimals
SameValue(value, back) ==
    CASE value.t = "str" -> back = StrV(value.s)
      [] value.t = "bool" -> back = IntV(value.n)
      [] value.t = "float" -> back = FloatV(Fixed7(value.s))

\* C18 as stated: a value written by the field update is read back as the
\* same value, up to the seven decimals of a float; every string is read
\* back as the same string.
C18_AsStated ==
    ret.op = "round_trip" => SameValue(ret.value, ret.back)

----------------------------------------------------------------------------
(***************************************************************************)
(* The backups of the write operations.                                    *)
(***************************************************************************)
\* C19 as stated: the backup of every write stays as it is, whatever is
\* written later: a backup that exists before a step exists after it, with
\* the same content.
C19_AsStated == [][\A b \in backups : b \in backups']_vars

----------------------------------------------------------------------------
(***************************************************************************)
(* SpecMissing: the write operations on a data directory from which        *)
(* another program removes files, all within one second.                   *)
(***************************************************************************)
\* another program deletes the file
Remove(f) ==
    /\ fs[f].exists
    /\ fs' = [fs EXCEPT ![f] = Missing]
    /\ ret' = Ret("remove")
    /\ UNCHANGED <<cache, backups, exports, dirs, now, candidates>>

NextMissing ==
    \/ \E f \in {"Recipe.bsmx", "Grain.bsmx"} : Read(f)
    \/ \E f \in {"Recipe.bsmx", "Grain.bsmx"} : Remove(f)
    \/ AddRecipe(Recipe(Ab, <<>>, <<>>, <<>>))
    \/ \E type \in {"grain", "hop"} :
            UpdateIngredient(type, PA, <<Update("notes", StrV(<<"&">>))>>)

SpecMissing == Init /\ [][NextMissing]_vars

WriteOps == {"add_recipe_to_beersmith", "update_ingredient"}

\* C20: a write operation that finds its file missing raises
\* FileNotFoundError before it changes anything: no file is written, no
\* directory or backup is created, and the cache is as it was.
C20_MissingAborts ==
    [][(ret'.op \in WriteOps /\ ret'.err = "FileNotFoundError")
        => UNCHANGED <<fs, cache, backups, dirs, exports>>]_vars

\* add_recipe_to_beersmith has failed on the missing Recipe.bsmx while the
\* cache holds the tree read from it before it was removed
C20_Witness ==
    /\ ret.op = "add_recipe_to_beersmith"
    /\ ret.err = "FileNotFoundError"
    /\ ~fs["Recipe.bsmx"].exists
    /\ cache["Recipe.bsmx"] # NoEntry
    /\ dirs = {}

----------------------------------------------------------------------------
(***************************************************************************)
(* SpecAbsent: files are read and catalogs listed while another program    *)
(* removes files, so that a file is absent from the start or absent with   *)
(* its tree still in the cache.                                            *)
(***************************************************************************)
\* the listing of a catalog without a search term
Query(c, kind) ==
    CASE kind = "equipment" -> get_equipment_profiles(c)
      [] kind = "mash" -> get_mash_profiles(c)
      [] OTHER -> get_items(c, kind, <<>>)

\* get_grains, get_hops, get_water_profiles, get_misc_ingredients,
\* get_mash_profiles, get_equipment_profiles
QueryCatalog(kind) ==
    /\ ListedItems(Query(cache, kind), kind, <<>>)
    /\ UNCHANGED <<fs, backups, exports, dirs, now, candidates>>

AbsentFiles == {"Grain.bsmx", "Equipment.bsmx", "Water.bsmx", "Mash.bsmx"}

NextAbsent ==
    \/ \E f \in AbsentFiles : Read(f)
    \/ \E f \in AbsentFiles : Remove(f)
    \/ \E kind \in {"grain", "equipment", "water", "mash", "misc"} : QueryCatalog(kind)

SpecAbsent == Init /\ [][NextAbsent]_vars

\* C21: a read of a file that does not exist returns no tree and a catalog
\* query on it returns the empty list, neither raises, whether the file
\* never existed or was read and cached before it was removed.
C21_AbsentIsEmpty ==
    /\ (ret.op = "read" /\ ~fs[ret.file].exists)
            => (ret.tree = NoTree /\ ret.err = "")
    /\ (ret.op = "get_items" /\ ~fs[ret.file].exists)
            => (ret.items = <<>> /\ ret.err = "")

\* the grains were listed after Grain.bsmx was removed, with the tree read
\* before still in the cache
C21_Witness ==
    /\ ret.op = "get_items"
    /\ ret.kind = "grain"
    /\ ~fs["Grain.bsmx"].exists
    /\ cache["Grain.bsmx"] # NoEntry
    /\ ret.items = <<>>

----------------------------------------------------------------------------
(***************************************************************************)
(* SpecFresh: Equipment.bsmx is read, listed and rewritten by another      *)
(* program, also within the second of its modification time.               *)
(***************************************************************************)
FreshFiles ==
    {EquipmentTable(<<Ba>>), EquipmentTable(<<Ab>>), EquipmentTable(<<Ba, Ab>>)}

NextFresh ==
    \/ Tick
    \/ Read("Equipment.bsmx")
    \/ \E content \in FreshFiles : Rewrite("Equipment.bsmx", content)
    \/ GetEquipmentProfiles

SpecFresh == Init /\ [][NextFresh]_vars

\* the tree of the file as it is now
TreeNow(f) == [id |-> 0, doc |-> RecoverParse(Cleaned(fs[f].content))]

\* the listing computed from that tree
ListingNow == Profiles([root |-> TreeNow("Equipment.bsmx"), cache |-> cache]).items

\* C22: get_equipment_profiles evicts the cache entry of Equipment.bsmx
\* before it reads: its result is the listing of the file as it is at the
\* call, and the tree it leaves in the cache is the tree of that content,
\* also when the entry it started from has the file's modification time.
C22_AlwaysFresh ==
    ret.op = "get_equipment_profiles"
        => /\ ret.items = ListingNow
           /\ cache["Equipment.bsmx"].tree.doc = TreeNow("Equipment.bsmx").doc

\* the listing was made from an entry that had the modification time of
\* the file and the tree of another content
C22_Witness ==
    /\ ret.op = "get_equipment_profiles"
    /\ ret.before # NoEntry
    /\ ret.before.mtime = fs["Equipment.bsmx"].mtime
    /\ ret.before.tree.doc # TreeNow("Equipment.bsmx").doc
    /\ Len(ret.items) = 1
    /\ ret.items[1].name = Ab

----------------------------------------------------------------------------
(***************************************************************************)
(* The ingredient matcher of the server (matching.py).  candidates is      *)
(* matcher._candidates: None until the list is first built.  A candidate   *)
(* is the entity with its ingredient type; its keywords are computed from  *)
(* the fields of the entity and are left out.                              *)
(***************************************************************************)
MatchCandidate(e, type) == [name |-> e.name, ingredient_type |-> type, entity |-> e]

CandidatesOf(items, type) == [n \in 1..Len(items) |-> MatchCandidate(items[n], type)]

\* the four loops of _build_candidates, each over the listing r of a kind
AddedMisc(list, r) ==
    [items |-> list \o CandidatesOf(r.items, "misc"), cache |-> r.cache]

AddedYeasts(list, r) ==
    AddedMisc(list \o CandidatesOf(r.items, "yeast"), get_items(r.cache, "misc", <<>>))

AddedGrains(list, r) ==
    AddedYeasts(list \o CandidatesOf(r.items, "grain"), get_items(r.cache, "yeast", <<>>))

AddedHops(r) == AddedGrains(CandidatesOf(r.items, "hop"), get_items(r.cache, "grain", <<>>))

_build_candidates(c) == AddedHops(get_items(c, "hop", <<>>))

\* the property candidates: the list is built when it is None, and kept
candidates_property(c, kept) ==
    IF kept = None THEN _build_candidates(c) ELSE [items |-> kept, cache |-> c]

Matched(r) ==
    /\ candidates' = r.items
    /\ cache' = r.cache
    /\ ret' = [Ret("candidates") EXCEPT !.items = r.items]

\* match_ingredient reads self.candidates
MatchIngredient ==
    /\ Matched(candidates_property(cache, candidates))
    /\ UNCHANGED <<fs, backups, exports, dirs, now>>

----------------------------------------------------------------------------
(***************************************************************************)
(* SpecMatch: grains are renamed, listed and matched.                      *)
(***************************************************************************)
NextMatch ==
    \/ Tick
    \/ \E name \in {PA, Ca} :
            UpdateIngredient("grain", name, <<Update("name", StrV(Ab))>>)
    \/ GetItems("grain", <<>>)
    \/ MatchIngredient

SpecMatch == Init /\ [][NextMatch]_vars

\* C23 as stated: after a write to a catalog file every query and every
\* matching operation reflects the file as it is: the candidates of the
\* matcher are those of the current files, and the listing of the grains
\* is the one of the current file.
C23_AsStated ==
    /\ ret.op = "candidates" => ret.items = _build_candidates(EmptyCache).items
    /\ ret.op = "get_items" => ret.items = get_items(EmptyCache, ret.kind, <<>>).items

----------------------------------------------------------------------------
(***************************************************************************)
(* SpecRecord: _element_to_dict on the elements with up to MaxChildren     *)
(* children: leaves with and without text, with a number, with an escaped  *)
(* entity, tags that differ in case only, and children with children.      *)
(***************************************************************************)
Leaves ==
    {Fld(tag, text) : tag \in {"F_G_NAME", "Name"},
                      text \in {<<>>, Pa, One1, Amp \o <<"a", "m", "p", ";">>}}

ChildElems ==
    {<<x>> : x \in Leaves}
    \cup {<<Open("Data"), Close("Data")>>,
          <<Open("Data"), Fld("Name", Pa), Close("Data")>>,
          <<Open("data"), Open("Data"), Fld("Name", One1), Close("Data"), Close("data")>>}

ElementsOf(n) ==
    {<<Open("Grain")>> \o Flatten(kids) \o <<Close("Grain")>> :
        kids \in [1..n -> ChildElems]}

Elements == UNION {ElementsOf(n) : n \in 0..MaxChildren}

InitRecord ==
    /\ fs = Catalogs
    /\ cache = EmptyCache
    /\ backups = {}
    /\ exports = {}
    /\ dirs = {}
    /\ now = 0
    /\ candidates = None
    /\ \E element \in Elements :
            ret = [doc |-> RecoverParse(element), at |-> 0, record |-> None]
                  @@ Ret("element")

\* item_dict = self._element_to_dict(elem), for the element and for the
\* children it has
ElementToDict ==
    /\ ret.op = "element"
    /\ \E i \in 1..Len(ret.doc) :
            /\ ret.doc[i].k = "open"
            /\ ret' = [doc |-> ret.doc, at |-> i, record |-> _element_to_dict(ret.doc, i)]
                      @@ Ret("_element_to_dict")
    /\ UNCHANGED <<fs, cache, backups, exports, dirs, now, candidates>>

NextRecord == ElementToDict

SpecRecord == InitRecord /\ [][NextRecord]_vars

\* the children of the element at i
KidsAt(d, depth, i) ==
    {c \in (i + 1)..Len(d) : d[c].k # "close" /\ ParentAt(d, depth, c) = i}

\* rec has a key for the lower-cased tag of every child of i; under it the
\* last child of that tag: the child itself when it has children, else the
\* converted decoded text, "" when it has none
StructuralAt(d, depth, i, rec) ==
    /\ DOMAIN rec = {TagLower(d[c].tag) : c \in KidsAt(d, depth, i)}
    /\ \A c \in KidsAt(d, depth, i) :
            (\A c2 \in KidsAt(d, depth, i) :
                    TagLower(d[c2].tag) = TagLower(d[c].tag) => c2 <= c)
            => rec[TagLower(d[c].tag)] =
                    IF KidsAt(d, depth, c) # {} THEN DictV(c)
                    ELSE IF d[c].val = <<>> THEN StrV(<<>>)
                    ELSE _convert_value(Unescape(d[c].val))

\* C24: _element_to_dict keys every child by its lower-cased tag; a child
\* with children is kept as the nested record of that child, a child
\* without children as the converted value of its decoded text, and a
\* child without text as "".
C24_Structural ==
    ret.op = "_element_to_dict"
        => StructuralAt(ret.doc, Depths(ret.doc), ret.at, ret.record)

\* a record with a nested record under "data" and a decoded text
C24_Witness ==
    /\ ret.op = "_element_to_dict"
    /\ ret.at = 1
    /\ DOMAIN ret.record = {"data", "name"}
    /\ ret.record["data"].t = "dict"
    /\ ret.record["name"] = StrV(<<"&">>)

----------------------------------------------------------------------------
(***************************************************************************)
(* SpecAppend: recipes without mash steps are added to a recipe file and   *)
(* the recipes are listed.                                                 *)
(***************************************************************************)
AppendFiles ==
    {RecipeFile(<<>>, One1),
     RecipeFile(<<Folder(folder_name)>>, One1),
     RecipeFile(<<TableElem(Ab, RecipeElem(One1, Pa, <<>>, <<>>))>>, One1)}

InitAppend ==
    /\ InitParser
    /\ \E content \in AppendFiles :
            fs = [Catalogs EXCEPT !["Recipe.bsmx"] = File(content)]

NextAppend ==
    \/ Tick
    \/ \E recipe \in {Recipe(Ab, <<>>, <<>>, <<>>), Recipe(Ca, <<>>, <<>>, <<Pa>>)} :
            AddRecipe(recipe)
    \/ GetRecipes(<<>>, <<>>)

SpecAppend == InitAppend /\ [][NextAppend]_vars

\* what get_recipes() returns for the files as they are
RecipeListing == get_recipes(EmptyCache, <<>>, <<>>).items

\* C25 as stated: after any sequence of successful add_recipe_to_beersmith
\* calls the listing of the recipes holds a summary for every recipe added,
\* next to every recipe listed before the calls: each file of AppendFiles
\* lists every recipe it stores and a successful call stores one more, so
\* the listing has as many summaries as the file has recipes.
C25_AsStated ==
    ret.op \in {"add_recipe_to_beersmith", "get_recipes"} =>
        Len(RecipeListing) = NumRecipes(fs["Recipe.bsmx"].content)

----------------------------------------------------------------------------
(***************************************************************************)
(* SpecLocate: the four ingredient catalogs are listed, and an entity of   *)
(* a listing is handed to update_ingredient by its name.                   *)
(***************************************************************************)
IngredientTypes == {"grain", "hop", "yeast", "misc"}

InitLocate ==
    /\ InitParser
    /\ fs = [Catalogs EXCEPT
                !["Misc.bsmx"] =
                    File(Table("Misc", <<Item("Misc", "F_M_NAME", Ma, "F_M_NOTES", <<>>),
                                         Item("Misc", "F_M_NAME", Pa, "F_M_NOTES", <<>>)>>))]

\* update_ingredient(type, e.name, updates) for the n-th entity e that the
\* catalog query of the type returns
UpdateListed(type, n, updates) ==
    LET listed == get_items(cache, type, <<>>).items
    IN  /\ n \in 1..Len(listed)
        /\ Becomes(update_ingredient(State, type, listed[n].name, updates),
                   [type |-> type, name |-> listed[n].name, at |-> n]
                   @@ [Ret("update_ingredient") EXCEPT !.file = KindFile(type)])
        /\ UNCHANGED now

NextLocate ==
    \/ \E type \in IngredientTypes : GetItems(type, <<>>)
    \/ \E type \in IngredientTypes, n \in 1..2 :
            UpdateListed(type, n, <<Update("notes", StrV(<<"&">>))>>)

SpecLocate == InitLocate /\ [][NextLocate]_vars

\* C26 as stated: update_ingredient(T, e.name, updates) for an entity e
\* that the catalog query of T returns locates e: it does not fail with
\* file-not-found, no-elements-found or ingredient-not-found, the first
\* item of the file included.
C26_AsStated ==
    ret.op = "update_ingredient" => (ret.ok /\ ret.err = "")

----------------------------------------------------------------------------
(***************************************************************************)
(* update_ingredient and the entities it does not name (SpecUpdate).       *)
(***************************************************************************)
\* the span i..j is an entity whose name is the given one, case ignored
NamedSpan(toks, i, j, name) ==
    /\ IsSpan(toks, i, j)
    /\ \E k \in i..j : /\ toks[k].k = "field"
                        /\ toks[k].tag = "F_G_NAME"
                        /\ Lower(toks[k].val) = Lower(name)

\* new differs from old only inside i..j
OnlyInside(old, new, i, j) ==
    /\ Len(new) = Len(old)
    /\ \A k \in 1..Len(old) : k \notin i..j => new[k] = old[k]

\* C27 as stated: after a successful update_ingredient the file differs
\* from its content before the call only inside the span of one entity
\* that carries the given name; every other entity span, one with the very
\* same text included, is unchanged.
C27_AsStated ==
    [][(IsOp("update_ingredient") /\ ret'.ok)
        => \E i, j \in 1..Len(fs["Grain.bsmx"].content) :
                /\ NamedSpan(fs["Grain.bsmx"].content, i, j, PA)
                /\ OnlyInside(fs["Grain.bsmx"].content, fs'["Grain.bsmx"].content, i, j)]_vars

\* the tag an update of the field is written to
XmlTag(kind, field) ==
    IF Alias(kind, field) # "" THEN Alias(kind, field) ELSE FallbackTag(field)

\* the first entity of the file that carries the name spans i..j
FirstNamed(toks, i, j, name) ==
    /\ NamedSpan(toks, i, j, name)
    /\ \A m, n \in 1..Len(toks) : NamedSpan(toks, m, n, name) => i <= m

\* every update is in the entity at i..j: its tag holds the coerced value
Applied(toks, i, j, updates) ==
    \A n \in 1..Len(updates) :
        \E k \in i..j : toks[k] = Fld(XmlTag("grain", updates[n].field),
                                       Coerce(updates[n].value))

\* C28 as stated: whenever update_ingredient returns True, the matched
\* entity holds, for each field of the updates, the coerced new value in
\* the field's tag; a field whose tag does not occur in the entity is not
\* skipped while success is reported.
C28_AsStated ==
    [][\A name \in {PA, Zz}, updates \in UpdateInputs :
        (UpdateIngredient("grain", name, updates) /\ ret'.ok)
        => \E i, j \in 1..Len(fs["Grain.bsmx"].content) :
                /\ FirstNamed(fs["Grain.bsmx"].content, i, j, name)
                /\ Len(fs'["Grain.bsmx"].content) = Len(fs["Grain.bsmx"].content)
                /\ Applied(fs'["Grain.bsmx"].content, i, j, updates)]_vars

----------------------------------------------------------------------------
(***************************************************************************)
(* SpecCreate: the create_recipe tool with names that are in the catalogs  *)
(* and names that are not, and with recipe names of any length.            *)
(***************************************************************************)
\* a recipe name of 251 characters: with ".bsmx" it has 256
LongName == [i \in 1..251 |-> "a"]

NamedInputs ==
    {[in EXCEPT !.name = name] :
        in \in {CreateInput(Pa, Ba, Ab, <<Pa>>, <<Ca>>),
                CreateInput(Zz, Ba, Ab, <<Pa>>, <<Ca>>),
                CreateInput(Pa, Ba, Ab, <<Pa>>, <<Zz>>)},
        name \in {Ca, Pb, LongName}}

NextCreate ==
    \/ Tick
    \/ \E kind \in {"grain", "style"} : GetItems(kind, <<>>)
    \/ \E in \in NamedInputs : CreateRecipe(in)

SpecCreate == Init /\ [][NextCreate]_vars

\* the export file of a recipe of that name is in MCP_Exports
Exported(e, name) == \E x \in e : x.name = Sanitize(name)

\* C29 as stated: when create_recipe returns an error message Recipe.bsmx
\* is as it was before the call, and when it returns the success message
\* the recipe is in Recipe.bsmx and the export file exists; a failure of
\* save_recipe after add_recipe_to_beersmith does not leave the recipe
\* added while an error is reported.
C29_AsStated ==
    [][IsOp("create_recipe")
        => IF ret'.ok
           THEN /\ NumRecipes(fs'["Recipe.bsmx"].content)
                        = NumRecipes(fs["Recipe.bsmx"].content) + 1
                /\ \E in \in NamedInputs : Exported(exports', in.name)
           ELSE fs'["Recipe.bsmx"] = fs["Recipe.bsmx"]]_vars

----------------------------------------------------------------------------
(***************************************************************************)
(* SpecResolve: the server tools that list the recipes and fetch the full  *)
(* recipe of each summary: search_recipes_by_ingredient and                *)
(* list_recipes_with_ingredients by the summary's name, suggest_recipes by *)
(* its id.                                                                 *)
(***************************************************************************)
\* for summary in parser.get_recipes(): recipe = parser.get_recipe(key):
\* the recipe fetched for each summary, None as <<>>
Resolved(listed, key) ==
    [n \in 1..Len(listed.items) |-> get_recipe(listed.cache, listed.items[n][key]).item]

\* if not recipe: continue -- the recipes the loop examines
Examined(resolved) == Flatten([n \in 1..Len(resolved) |-> resolved[n]])

\* listed is what get_recipes returned, resolved what the loop fetched
ResolveAll(op, key) ==
    \E listed \in {get_recipes(cache, <<>>, <<>>)} :
    \E resolved \in {Resolved(listed, key)} :
        /\ cache' = listed.cache
        /\ ret' = [summaries |-> listed.items, resolved |-> resolved]
                  @@ [Ret(op) EXCEPT !.file = "Recipe.bsmx", !.items = Examined(resolved)]

SearchRecipesByIngredient ==
    /\ ResolveAll("search_recipes_by_ingredient", "name")
    /\ UNCHANGED <<fs, backups, exports, dirs, now, candidates>>

\* suggest_recipes with no available ingredients: the matcher is not asked
SuggestRecipes ==
    /\ ResolveAll("suggest_recipes", "id")
    /\ UNCHANGED <<fs, backups, exports, dirs, now, candidates>>

NextResolve ==
    \/ Tick
    \/ Touch("Recipe.bsmx")
    \/ GetRecipes(<<>>, <<>>)
    \/ SearchRecipesByIngredient
    \/ SuggestRecipes

SpecResolve == InitRecipes /\ [][NextResolve]_vars

\* C30 as stated: the full recipe the server tools fetch for a summary of
\* get_recipes, by its name or by its id, is the recipe the summary was
\* built from: it has the summary's name and folder, also when two recipes
\* share a name or an id.
C30_AsStated ==
    ret.op \in {"search_recipes_by_ingredient", "suggest_recipes"} =>
        \A n \in 1..Len(ret.summaries) :
            /\ ret.resolved[n] # <<>>
            /\ ret.resolved[n][1].name = ret.summaries[n].name
            /\ ret.resolved[n][1].folder = ret.summaries[n].folder

====
